---- MODULE Spec2Model ----
(***************************************************************************)
(* Inference orchestration core of the LensRoom workflow editor:           *)
(*   - the credit ledger (tables credits / credit_transactions and the     *)
(*     adjust_credits / get_user_balance RPC functions),                   *)
(*   - the generation record store,                                        *)
(*   - the POST /api/infer request handler with its fallback wrappers.     *)
(*                                                                         *)
(* SpecLedger runs concurrent callers of adjust_credits statement by       *)
(* statement; Spec runs the request handler step by step against the same  *)
(* tables.                                                                 *)
(***************************************************************************)
EXTENDS Integers, Sequences, FiniteSets, TLC

\* ---------------------------------------------------------------- bounds
NumCallers == 2          \* concurrent database sessions calling adjust_credits
MaxCalls == 3            \* adjust_credits calls started over one behaviour

\* ------------------------------------------------------- program constants
IntMax == 2147483647     \* PostgreSQL INTEGER (p_amount, credits.amount)

Users == {"u1"}
Callers == 1..NumCallers
NoRow == <<>>           \* no committed row in credits for the user
Row(a) == <<a>>          \* a committed or pending amount
NoOne == 0
Null == "null"

\* signed amounts offered to adjust_credits; IntMax makes the sum overflow
Amounts == {-8, -2, 0, 5, IntMax}
\* p_type: credit_transactions.type is NOT NULL, so NULL makes the INSERT fail
Types == {"generation", Null}

VARIABLES
  credits,      \* table credits, committed rows: user -> amount or NoRow
  txs,          \* table credit_transactions, committed rows in commit order
  rowLock,      \* holder of the row lock on credits(user_id), per user
  call,         \* per session: the adjust_credits invocation in progress
  ncalls,       \* adjust_credits calls started so far
  base,         \* balance each identity had when the behaviour started
  okSum,        \* per user: sum of the amounts of calls that reported success
  okCount,      \* per user: number of calls that reported success
  failCount,    \* per user: number of calls that reported failure
  lastReport    \* the JSON object the latest finished call returned

VARIABLES
  cfg,          \* the deployment's environment variables
  gens,         \* table generations: id -> row
  storage,      \* bucket "generations": the object paths written
  req,          \* the request being handled: position and locals of POST
  hist,         \* what the request being handled has done so far
  resp          \* the response the request ended with

VARIABLES
  prev,         \* outcomes of the earlier executions of the same request
  uploadLog,    \* calls of uploadGenerationToStorage made directly, in order
  poll,         \* one inferMarket / inferVeo invocation: position, clock, counters
  reads,        \* results of the get_user_balance calls that returned, in order
  app,          \* one application of a helper function: its input and its result
  sessions      \* concurrent executions of POST by one identity: position, locals

runVars == <<prev, uploadLog, poll, reads, app, sessions>>

ledgerAux == <<rowLock, call, ncalls, base, okSum, okCount, failCount, lastReport>>

handlerVars == <<cfg, gens, storage, req, hist, resp>>

vars == <<credits, txs, rowLock, call, ncalls, base, okSum, okCount,
          failCount, lastReport, cfg, gens, storage, req, hist, resp,
          prev, uploadLog, poll, reads, app, sessions>>

IdleCall == [pc |-> "idle", user |-> Null, amount |-> 0, type |-> Null,
             gen |-> Null, v_current |-> 0, v_new |-> 0, inserted |-> FALSE,
             pendBal |-> NoRow, pendTx |-> <<>>]

RECURSIVE SumAmounts(_)
SumAmounts(rows) ==
  IF rows = <<>> THEN 0 ELSE Head(rows).amount + SumAmounts(Tail(rows))

RowsOf(u) == SelectSeq(txs, LAMBDA r : r.user = u)
RowsOfGen(g) == SelectSeq(txs, LAMBDA r : r.gen = g)

Balance(u) == IF credits[u] = NoRow THEN 0 ELSE credits[u][1]

\* ------------------------------------------------- adjust_credits, stepwise
\* A session calls the RPC with its arguments.
AdjustBegin(c, u, amt, ty) ==
  /\ call[c].pc = "idle"
  /\ ncalls < MaxCalls
  /\ ncalls' = ncalls + 1
  /\ call' = [call EXCEPT ![c] = [IdleCall EXCEPT !.pc = "ensure", !.user = u,
                                   !.amount = amt, !.type = ty]]
  /\ UNCHANGED <<credits, txs, rowLock, base, okSum, okCount, failCount, lastReport,
                 handlerVars, runVars>>

\* INSERT INTO credits ... ON CONFLICT (user_id) DO NOTHING.
\* With no committed row the insert takes the key; a second inserter waits for
\* the first one's transaction to end.
EnsureCreditsRow(c) ==
  LET u == call[c].user IN
  /\ call[c].pc = "ensure"
  /\ IF credits[u] # NoRow
       THEN /\ call' = [call EXCEPT ![c].pc = "lock"]
            /\ UNCHANGED rowLock
       ELSE /\ rowLock[u] = NoOne
            /\ rowLock' = [rowLock EXCEPT ![u] = c]
            /\ call' = [call EXCEPT ![c].pc = "lock", ![c].inserted = TRUE]
  /\ UNCHANGED <<credits, txs, ncalls, base, okSum, okCount, failCount, lastReport, handlerVars, runVars>>

\* The same statement without the row lock (plain SELECT).
LockRowNoForUpdate(c) ==
  LET u == call[c].user IN
  /\ call[c].pc = "lock"
  /\ call' = [call EXCEPT ![c].pc = "calc",
                          ![c].v_current = IF call[c].inserted THEN 0 ELSE Balance(u)]
  /\ UNCHANGED <<credits, txs, rowLock, ncalls, base, okSum, okCount, failCount, lastReport, handlerVars, runVars>>

\* SELECT amount INTO v_current_balance ... FOR UPDATE: waits for the row lock,
\* then reads the latest committed amount.
LockRow(c) ==
  LET u == call[c].user IN
  /\ call[c].pc = "lock"
  /\ \/ call[c].inserted /\ rowLock[u] = c
     \/ ~call[c].inserted /\ rowLock[u] = NoOne
  /\ rowLock' = [rowLock EXCEPT ![u] = c]
  /\ call' = [call EXCEPT ![c].pc = "calc",
                          ![c].v_current = IF call[c].inserted THEN 0 ELSE Balance(u)]
  /\ UNCHANGED <<credits, txs, ncalls, base, okSum, okCount, failCount, lastReport, handlerVars, runVars>>

\* v_new_balance := v_current_balance + p_amount (integer out of range raises),
\* then IF p_amount < 0 AND v_new_balance < 0 THEN RETURN success = false.
CheckInsufficient(c) ==
  LET overflow == call[c].amount > 0 /\ call[c].v_current > IntMax - call[c].amount
      new == IF overflow THEN 0 ELSE call[c].v_current + call[c].amount
  IN
  /\ call[c].pc = "calc"
  /\ call' = [call EXCEPT ![c].v_new = new,
                          ![c].pc = IF overflow THEN "exception"
                                    ELSE IF call[c].amount < 0 /\ new < 0
                                           THEN "reject" ELSE "update"]
  /\ UNCHANGED <<credits, txs, rowLock, ncalls, base, okSum, okCount, failCount, lastReport, handlerVars, runVars>>

\* UPDATE credits SET amount = v_new_balance; CHECK (amount >= 0) raises.
UpdateCredits(c) ==
  /\ call[c].pc = "update"
  /\ IF call[c].v_new >= 0
       THEN call' = [call EXCEPT ![c].pc = "log", ![c].pendBal = Row(call[c].v_new)]
       ELSE call' = [call EXCEPT ![c].pc = "exception"]
  /\ UNCHANGED <<credits, txs, rowLock, ncalls, base, okSum, okCount, failCount, lastReport, handlerVars, runVars>>

\* The function without its INSERT INTO credit_transactions.
LogTransactionSkipped(c) ==
  /\ call[c].pc = "log"
  /\ call' = [call EXCEPT ![c].pc = "return"]
  /\ UNCHANGED <<credits, txs, rowLock, ncalls, base, okSum, okCount, failCount, lastReport, handlerVars, runVars>>

\* INSERT INTO credit_transactions (...); type is NOT NULL, a NULL raises.
LogTransaction(c) ==
  /\ call[c].pc = "log"
  /\ IF call[c].type # Null
       THEN call' = [call EXCEPT ![c].pc = "return",
                       ![c].pendTx = <<[user |-> call[c].user, amount |-> call[c].amount,
                                        type |-> call[c].type, gen |-> call[c].gen]>>]
       ELSE call' = [call EXCEPT ![c].pc = "exception"]
  /\ UNCHANGED <<credits, txs, rowLock, ncalls, base, okSum, okCount, failCount, lastReport, handlerVars, runVars>>

\* What the end of the RPC's transaction does to the tables and the lock.
Commit(c, bal, rows) ==
  LET u == call[c].user IN
  /\ credits' = [credits EXCEPT ![u] =
                   IF bal # NoRow THEN bal
                   ELSE IF call[c].inserted THEN Row(0) ELSE credits[u]]
  /\ txs' = txs \o rows
  /\ rowLock' = [rowLock EXCEPT ![u] = IF rowLock[u] = c THEN NoOne ELSE rowLock[u]]

\* RETURN json_build_object('success', true, 'new_balance', v_new_balance, ...)
ReturnSuccess(c) ==
  LET u == call[c].user IN
  /\ call[c].pc = "return"
  /\ Commit(c, call[c].pendBal, call[c].pendTx)
  /\ okSum' = [okSum EXCEPT ![u] = @ + call[c].amount]
  /\ okCount' = [okCount EXCEPT ![u] = @ + 1]
  /\ lastReport' = [success |-> TRUE, new_balance |-> Row(call[c].v_new), user |-> u,
                    rolledBack |-> FALSE]
  /\ call' = [call EXCEPT ![c] = IdleCall]
  /\ UNCHANGED <<ncalls, base, failCount, handlerVars, runVars>>

\* RETURN json_build_object('success', false, 'error', 'Insufficient credits', ...):
\* a normal return, so the row inserted by the first statement is kept.
ReturnInsufficient(c) ==
  LET u == call[c].user IN
  /\ call[c].pc = "reject"
  /\ Commit(c, NoRow, <<>>)
  /\ failCount' = [failCount EXCEPT ![u] = @ + 1]
  /\ lastReport' = [success |-> FALSE, new_balance |-> NoRow, user |-> u,
                    rolledBack |-> FALSE]
  /\ call' = [call EXCEPT ![c] = IdleCall]
  /\ UNCHANGED <<ncalls, base, okSum, okCount, handlerVars, runVars>>

\* An exception handler that keeps the balance written before the error.
ExceptionHandlerKeepsUpdate(c) ==
  LET u == call[c].user IN
  /\ call[c].pc = "exception"
  /\ Commit(c, call[c].pendBal, <<>>)
  /\ failCount' = [failCount EXCEPT ![u] = @ + 1]
  /\ lastReport' = [success |-> FALSE, new_balance |-> NoRow, user |-> u,
                    rolledBack |-> call[c].pendBal # NoRow]
  /\ call' = [call EXCEPT ![c] = IdleCall]
  /\ UNCHANGED <<ncalls, base, okSum, okCount, handlerVars, runVars>>

\* EXCEPTION WHEN OTHERS THEN RETURN success = false: the block's statements
\* (row insert, update, transaction insert) are rolled back.
ExceptionHandler(c) ==
  LET u == call[c].user IN
  /\ call[c].pc = "exception"
  /\ UNCHANGED <<credits, txs>>
  /\ rowLock' = [rowLock EXCEPT ![u] = IF rowLock[u] = c THEN NoOne ELSE rowLock[u]]
  /\ failCount' = [failCount EXCEPT ![u] = @ + 1]
  /\ lastReport' = [success |-> FALSE, new_balance |-> NoRow, user |-> u,
                    rolledBack |-> call[c].pendBal # NoRow]
  /\ call' = [call EXCEPT ![c] = IdleCall]
  /\ UNCHANGED <<ncalls, base, okSum, okCount, handlerVars, runVars>>

NoReport == [success |-> FALSE, new_balance |-> NoRow, user |-> Null, rolledBack |-> FALSE]

\* ------------------------------------------------------------ model registry
MaxOutputs == 4          \* largest outputsCount a request asks for
MaxFaults == 2           \* Supabase calls that fail (env configured) per request
MaxConcurrent == 1       \* adjust_credits calls of other sessions per request
MaxRuns == 2             \* executions of one request over one behaviour
MaxPersist == 3          \* direct calls of uploadGenerationToStorage

CONCURRENCY_LIMIT == 3
\* waitForMarketResult / waitForVeoResult: default timeout and poll interval
timeoutMs == 180000
PollIntervalMs == 2000
MaxFetchMs == 1000       \* longest duration of one fetch, in milliseconds

ModelIds == {"anthropic_text", "seedream_image", "nano_banana_edit",
             "veo3_video", "midjourney_image"}

MODEL_REGISTRY ==
  [m \in ModelIds |->
     CASE m = "anthropic_text" ->
            [provider |-> "anthropic", capability |-> "text", enabled |-> TRUE,
             creditCost |-> 2, kieProvider |-> Null]
       [] m = "seedream_image" ->
            [provider |-> "kie-market", capability |-> "image", enabled |-> TRUE,
             creditCost |-> 8, kieProvider |-> "market"]
       [] m = "nano_banana_edit" ->
            [provider |-> "kie-market", capability |-> "edit", enabled |-> TRUE,
             creditCost |-> 8, kieProvider |-> "market"]
       [] m = "veo3_video" ->
            [provider |-> "kie-veo", capability |-> "video", enabled |-> TRUE,
             creditCost |-> 25, kieProvider |-> "veo"]
       [] m = "midjourney_image" ->
            [provider |-> "kie-market", capability |-> "image", enabled |-> FALSE,
             creditCost |-> 10, kieProvider |-> "market"]]

NoModel == [provider |-> Null, capability |-> Null, enabled |-> FALSE,
            creditCost |-> 0, kieProvider |-> Null]

getModelById(id) == IF id \in ModelIds THEN MODEL_REGISTRY[id] ELSE NoModel

\* model ids a request may carry: "" is a body without modelId or prompt
RequestModelIds == {"anthropic_text", "seedream_image", "nano_banana_edit",
                    "midjourney_image", "no_such_model", ""}

\* generation ids: ThisGen is the crypto.randomUUID() of the request being
\* handled, the others are rows earlier requests left in the table
ThisGen == "g1"
PriorSuccess == "g_ok"
PriorFailed == "g_failed"
\* the id an earlier execution of the same request drew
PriorRun == "g0"
GenIds == {ThisGen, PriorSuccess, PriorFailed, PriorRun}
\* amounts other sessions of the identity adjust by while the request runs
ConcurrentAmounts == {-8}
TestUser == "u1"

\* reasons wrapSupabaseOperation gives a failed call when the env is configured
FaultReasons == {"network_error"}

\* ------------------------------------------------------------ handler state
NoErr == [kind |-> Null, status |-> 0, msg |-> Null, reason |-> Null]

IdleReq ==
  [pc |-> "idle", session |-> FALSE, modelId |-> "", hasImage |-> FALSE,
   outputsCount |-> 1, userId |-> Null, generationId |-> Null,
   currentBalance |-> NoRow, newBalance |-> NoRow,
   supabaseSkipped |-> FALSE, supabaseSkipReason |-> Null,
   i |-> 0, batch |-> <<>>, allKieUrls |-> <<>>, urlsDefined |-> TRUE,
   succeededCount |-> 0, failedCount |-> 0,
   publicUrls |-> <<>>, up |-> 0, err |-> NoErr, faults |-> 0,
   site |-> Null, pendStatus |-> 0, pendError |-> Null]

NoHist ==
  [created |-> FALSE, debited |-> FALSE, debitTried |-> FALSE, started |-> 0,
   inflight |-> 0, termCalls |-> 0, markedSuccess |-> FALSE, uploads |-> 0,
   other |-> 0, balanceRead |-> NoRow, balanceAtStart |-> 0,
   okSet |-> {}, settled |-> 0,
   unavail |-> {}, rejected |-> FALSE, provFailed |-> FALSE,
   failStatuses |-> {}, orig |-> <<>>, adjustCalls |-> 0]

NoResp ==
  [status |-> 0, success |-> FALSE, error |-> Null, urls |-> <<>>, text |-> FALSE,
   generationId |-> Null, newBalance |-> NoRow, skipped |-> FALSE, reason |-> Null,
   succeededCount |-> 0, failedCount |-> 0, mock |-> FALSE]

NoGen == [status |-> "none", urls |-> <<>>, error |-> Null, credits_used |-> 0,
          user |-> Null]

\* rows of earlier requests, one per terminal status
InitialGens ==
  [g \in GenIds |->
     IF g \in {ThisGen, PriorRun} THEN NoGen
     ELSE [status |-> IF g = PriorSuccess THEN "success" ELSE "failed",
           urls |-> <<>>, error |-> Null, credits_used |-> 8, user |-> TestUser]]

HandlerIdle ==
  /\ cfg = [optional |-> FALSE, mock |-> FALSE, env |-> "ok", anon |-> "off",
            providerKey |-> TRUE]
  /\ gens = InitialGens
  /\ storage = {}
  /\ req = IdleReq
  /\ hist = NoHist
  /\ resp = NoResp

\* what an invocation returns or throws: {urls, taskId, duration} or a
\* KieApiError with its statusCode
NoOutcome == [kind |-> "none", status |-> 0, urls |-> 0]
Urls(n) == [kind |-> "urls", status |-> 200, urls |-> n]
Thrown(status) == [kind |-> "KieApiError", status |-> status, urls |-> 0]

\* no helper function applied yet
NoApp == [fn |-> Null, input |-> <<>>, result |-> <<>>]

IdlePoll ==
  [pc |-> "idle", api |-> Null, created |-> 0, taskId |-> FALSE,
   now |-> 0, startTime |-> 0, attempts |-> 0, polls |-> 0,
   lastState |-> "none", outcome |-> NoOutcome]

RunIdle ==
  /\ prev = <<>>
  /\ uploadLog = <<>>
  /\ poll = IdlePoll
  /\ reads = <<>>
  /\ app = NoApp
  /\ sessions = <<>>

Model == getModelById(req.modelId)
cost == Model.creditCost

\* ------------------------------------------------- the tables, as one call
\* get_user_balance: SELECT amount; IF NOT FOUND THEN INSERT (user, 0).
get_user_balance(u) ==
  [balance |-> Balance(u),
   credits |-> IF credits[u] = NoRow THEN [credits EXCEPT ![u] = Row(0)] ELSE credits]

\* adjust_credits as one serialized transaction (the net effect of the steps
\* EnsureCreditsRow .. ReturnSuccess / ReturnInsufficient / ExceptionHandler).
adjust_credits(u, amt, ty, g) ==
  LET cur == Balance(u)
      overflow == amt > 0 /\ cur > IntMax - amt
      new == IF overflow THEN 0 ELSE cur + amt
      row == IF credits[u] = NoRow THEN [credits EXCEPT ![u] = Row(0)] ELSE credits
  IN IF overflow
       THEN [success |-> FALSE, new_balance |-> NoRow, credits |-> credits, txs |-> txs]
     ELSE IF amt < 0 /\ new < 0
       THEN [success |-> FALSE, new_balance |-> NoRow, credits |-> row, txs |-> txs]
     ELSE IF ty = Null
       THEN [success |-> FALSE, new_balance |-> NoRow, credits |-> credits, txs |-> txs]
     ELSE [success |-> TRUE, new_balance |-> Row(new),
           credits |-> [credits EXCEPT ![u] = Row(new)],
           txs |-> Append(txs, [user |-> u, amount |-> amt, type |-> ty, gen |-> g])]

\* UPDATE generations SET ... WHERE id = g: no row, no effect.
UpdateGeneration(g, st, urls, error) ==
  IF g \in GenIds /\ gens[g].status # "none"
    THEN [gens EXCEPT ![g].status = st, ![g].urls = urls, ![g].error = error]
    ELSE gens

\* ------------------------------------------------------- wrapped call results
\* wrapSupabaseOperation: checkSupabaseEnv throws missing_env; otherwise the
\* operation returns, or throws and is classified.
SupabaseOutcomes ==
  IF cfg.env # "ok" THEN {"missing_env"}
  ELSE {"ok"} \cup (IF req.faults < MaxFaults THEN FaultReasons ELSE {})

Fault(o) == IF o \in FaultReasons THEN 1 ELSE 0

Unavailable(reason, msg) ==
  [kind |-> "SupabaseUnavailableError", status |-> 0, msg |-> msg, reason |-> reason]
PlainError(msg) == [kind |-> "Error", status |-> 0, msg |-> msg, reason |-> Null]
KieApiError(status) == [kind |-> "KieApiError", status |-> status, msg |-> "kie", reason |-> Null]

Response(status, error) ==
  [NoResp EXCEPT !.status = status, !.success = FALSE, !.error = error]

\* return NextResponse.json(...): the request ends with this response
Return(r) ==
  /\ resp' = r
  /\ req' = [req EXCEPT !.pc = "done"]

\* process.env as getServiceSupabase reads it: both variables set, the URL
\* missing, the service role key missing, both missing. The URL is tested
\* first, so with both missing the message names NEXT_PUBLIC_SUPABASE_URL.
EnvStates == {"ok", "no_url", "no_key", "none"}
UrlMissing == cfg.env \in {"no_url", "none"}

\* ------------------------------------------------------------ POST, step 0
NewRequest(session, modelId, hasImage, outputsCount) ==
  /\ req.pc = "idle"
  /\ req' = [IdleReq EXCEPT !.pc = "auth", !.session = session, !.modelId = modelId,
                            !.hasImage = hasImage, !.outputsCount = outputsCount]
  /\ hist' = [NoHist EXCEPT !.balanceAtStart = Balance(TestUser)]
  /\ resp' = NoResp
  /\ UNCHANGED <<credits, txs, ledgerAux, runVars, cfg, gens, storage>>

\* Step 1 without the 401 exit: a request without identity always continues.
AuthenticateNoUnauthorized ==
  LET authThrows == cfg.env # "ok"
      swallowed == cfg.optional /\ UrlMissing
      uid == IF authThrows THEN Null ELSE IF req.session THEN TestUser ELSE Null
  IN
  /\ req.pc = "auth"
  /\ UNCHANGED <<credits, txs, ledgerAux, runVars, cfg, gens, storage, hist>>
  /\ IF authThrows /\ ~swallowed
       THEN /\ req' = [req EXCEPT !.pc = "catch",
                          !.err = PlainError(IF UrlMissing
                                               THEN "Missing NEXT_PUBLIC_SUPABASE_URL"
                                               ELSE "Missing SUPABASE_SERVICE_ROLE_KEY")]
            /\ UNCHANGED resp
     ELSE IF uid # Null
       THEN /\ req' = [req EXCEPT !.pc = "parse", !.userId = uid]
            /\ UNCHANGED resp
     ELSE IF cfg.anon = "invalid"
       THEN Return(Response(500, "Invalid TEST_USER_ID configuration"))
     ELSE IF cfg.anon = "valid"
       THEN /\ req' = [req EXCEPT !.pc = "parse", !.userId = TestUser]
            /\ UNCHANGED resp
     ELSE /\ req' = [req EXCEPT !.pc = "parse", !.userId = Null]
          /\ UNCHANGED resp

\* 1. AUTH: getUserId, then the TEST_USER_ID / anonymous fallback.
Authenticate ==
  LET authThrows == cfg.env # "ok"
      swallowed == cfg.optional /\ UrlMissing
      uid == IF authThrows THEN Null ELSE IF req.session THEN TestUser ELSE Null
  IN
  /\ req.pc = "auth"
  /\ UNCHANGED <<credits, txs, ledgerAux, runVars, cfg, gens, storage, hist>>
  /\ IF authThrows /\ ~swallowed
       THEN /\ req' = [req EXCEPT !.pc = "catch",
                          !.err = PlainError(IF UrlMissing
                                               THEN "Missing NEXT_PUBLIC_SUPABASE_URL"
                                               ELSE "Missing SUPABASE_SERVICE_ROLE_KEY")]
            /\ UNCHANGED resp
     ELSE IF uid # Null
       THEN /\ req' = [req EXCEPT !.pc = "parse", !.userId = uid]
            /\ UNCHANGED resp
     ELSE IF cfg.anon = "invalid"
       THEN Return(Response(500, "Invalid TEST_USER_ID configuration"))
     ELSE IF cfg.anon = "valid"
       THEN /\ req' = [req EXCEPT !.pc = "parse", !.userId = TestUser]
            /\ UNCHANGED resp
     ELSE IF ~cfg.optional
       THEN Return(Response(401, "Unauthorized"))
     ELSE /\ req' = [req EXCEPT !.pc = "parse", !.userId = Null]
          /\ UNCHANGED resp

\* 2-4. PARSE REQUEST, VALIDATE MODEL, MOCK MODE CHECK.
ParseRequest ==
  /\ req.pc = "parse"
  /\ UNCHANGED <<credits, txs, ledgerAux, runVars, cfg, gens, storage, hist>>
  /\ IF req.modelId = ""
       THEN Return(Response(400, "modelId and inputs.prompt are required"))
     ELSE IF ~Model.enabled
       THEN Return(Response(404, "Model not found or disabled"))
     ELSE IF cfg.mock
       THEN Return([NoResp EXCEPT !.status = 200, !.success = TRUE, !.mock = TRUE,
                                  !.urls = <<"mock">>])
     ELSE /\ req' = [req EXCEPT !.pc = "balance"]
          /\ UNCHANGED resp

\* Step 5 without the "currentBalance < cost" exit.
CheckCreditsNoGate ==
  /\ req.pc = "balance"
  /\ UNCHANGED <<txs, ledgerAux, runVars, cfg, gens, storage, resp>>
  /\ IF req.userId = Null
       THEN /\ req' = [req EXCEPT !.pc = "create"]
            /\ UNCHANGED <<credits, hist>>
       ELSE LET r == get_user_balance(req.userId) IN
            /\ credits' = r.credits
            /\ hist' = [hist EXCEPT !.balanceRead = Row(r.balance)]
            /\ req' = [req EXCEPT !.pc = "create", !.currentBalance = Row(r.balance)]

\* 5. TRY CHECK CREDITS: tryGetBalance, the 402 exit, the 503 exit.
CheckCredits ==
  /\ req.pc = "balance"
  /\ UNCHANGED <<txs, ledgerAux, runVars, cfg, gens, storage>>
  /\ IF req.userId = Null
       THEN /\ req' = [req EXCEPT !.pc = "create"]
            /\ UNCHANGED <<credits, resp, hist>>
       ELSE \E o \in SupabaseOutcomes :
              IF o = "ok"
                THEN LET r == get_user_balance(req.userId) IN
                     /\ credits' = r.credits
                     /\ hist' = [hist EXCEPT !.balanceRead = Row(r.balance)]
                     /\ IF r.balance < cost
                          THEN Return(Response(402, "Insufficient credits"))
                          ELSE /\ req' = [req EXCEPT !.pc = "create",
                                             !.currentBalance = Row(r.balance)]
                               /\ UNCHANGED resp
                ELSE /\ UNCHANGED credits
                     /\ hist' = [hist EXCEPT !.unavail = @ \cup {"balance"}]
                     /\ IF cfg.optional
                          THEN /\ req' = [req EXCEPT !.pc = "create",
                                             !.supabaseSkipped = TRUE,
                                             !.supabaseSkipReason = o,
                                             !.faults = @ + Fault(o)]
                               /\ UNCHANGED resp
                          ELSE Return(Response(503, "Supabase unavailable"))

\* A record created with creditsUsed 0.
CreateRecordZeroCredits ==
  LET g == ThisGen IN
  /\ req.pc = "create"
  /\ UNCHANGED <<credits, txs, ledgerAux, runVars, cfg, storage, resp>>
  /\ IF req.userId = Null
       THEN /\ req' = [req EXCEPT !.pc = "debit", !.generationId = g]
            /\ UNCHANGED <<gens, hist>>
       ELSE \E o \in SupabaseOutcomes :
              IF o = "ok"
                THEN /\ gens' = [gens EXCEPT ![g] =
                                   [status |-> "processing", urls |-> <<>>, error |-> Null,
                                    credits_used |-> 0, user |-> req.userId]]
                     /\ hist' = [hist EXCEPT !.created = TRUE]
                     /\ req' = [req EXCEPT !.pc = "debit", !.generationId = g]
                ELSE /\ UNCHANGED gens
                     /\ hist' = [hist EXCEPT !.unavail = @ \cup {"create"}]
                     /\ IF cfg.optional
                          THEN req' = [req EXCEPT !.pc = "debit", !.generationId = g,
                                         !.supabaseSkipped = TRUE,
                                         !.supabaseSkipReason = o,
                                         !.faults = @ + Fault(o)]
                          ELSE req' = [req EXCEPT !.pc = "catch", !.generationId = g,
                                         !.faults = @ + Fault(o),
                                         !.err = Unavailable(o, "createGeneration")]

\* 6. TRY CREATE GENERATION RECORD: generationId = crypto.randomUUID().
CreateRecord ==
  LET g == ThisGen IN
  /\ req.pc = "create"
  /\ UNCHANGED <<credits, txs, ledgerAux, runVars, cfg, storage, resp>>
  /\ IF req.userId = Null
       THEN /\ req' = [req EXCEPT !.pc = "debit", !.generationId = g]
            /\ UNCHANGED <<gens, hist>>
       ELSE \E o \in SupabaseOutcomes :
              IF o = "ok"
                THEN /\ gens' = [gens EXCEPT ![g] =
                                   [status |-> "processing", urls |-> <<>>, error |-> Null,
                                    credits_used |-> cost, user |-> req.userId]]
                     /\ hist' = [hist EXCEPT !.created = TRUE]
                     /\ req' = [req EXCEPT !.pc = "debit", !.generationId = g]
                ELSE /\ UNCHANGED gens
                     /\ hist' = [hist EXCEPT !.unavail = @ \cup {"create"}]
                     /\ IF cfg.optional
                          THEN req' = [req EXCEPT !.pc = "debit", !.generationId = g,
                                         !.supabaseSkipped = TRUE,
                                         !.supabaseSkipReason = o,
                                         !.faults = @ + Fault(o)]
                          ELSE req' = [req EXCEPT !.pc = "catch", !.generationId = g,
                                         !.faults = @ + Fault(o),
                                         !.err = Unavailable(o, "createGeneration")]

\* Step 7 without the call to tryAdjustCredits.
DeductCreditsSkipped ==
  /\ req.pc = "debit"
  /\ req' = [req EXCEPT !.pc = "provider"]
  /\ UNCHANGED <<credits, txs, ledgerAux, runVars, cfg, gens, storage, resp, hist>>

\* Step 7 with every failure of tryAdjustCredits swallowed, in either mode.
DeductCreditsSwallowsAlways ==
  /\ req.pc = "debit"
  /\ UNCHANGED <<ledgerAux, runVars, cfg, gens, storage, resp>>
  /\ IF req.currentBalance = NoRow
       THEN /\ req' = [req EXCEPT !.pc = "provider"]
            /\ UNCHANGED <<credits, txs, hist>>
       ELSE \E o \in SupabaseOutcomes :
              LET r == adjust_credits(req.userId, 0 - cost, "generation", req.generationId) IN
              IF o = "ok" /\ r.success
                THEN /\ credits' = r.credits
                     /\ txs' = r.txs
                     /\ hist' = [hist EXCEPT !.debited = TRUE, !.debitTried = TRUE]
                     /\ req' = [req EXCEPT !.pc = "provider", !.newBalance = r.new_balance]
                ELSE /\ credits' = IF o = "ok" THEN r.credits ELSE credits
                     /\ UNCHANGED txs
                     /\ hist' = [hist EXCEPT !.debitTried = TRUE,
                                              !.rejected = (o = "ok"),
                                              !.unavail = IF o = "ok" THEN @
                                                          ELSE @ \cup {"debit"}]
                     /\ req' = [req EXCEPT !.pc = "provider", !.supabaseSkipped = TRUE,
                                    !.supabaseSkipReason = IF o = "ok" THEN "other" ELSE o,
                                    !.faults = @ + Fault(o)]

\* A debit of the cost times the number of requested outputs.
DeductCreditsPerOutput ==
  /\ req.pc = "debit"
  /\ UNCHANGED <<ledgerAux, runVars, cfg, gens, storage, resp>>
  /\ IF req.currentBalance = NoRow
       THEN /\ req' = [req EXCEPT !.pc = "provider"]
            /\ UNCHANGED <<credits, txs, hist>>
       ELSE \E o \in SupabaseOutcomes :
              LET r == adjust_credits(req.userId, 0 - cost * req.outputsCount, "generation", req.generationId)
                  reason == IF o = "ok" THEN "other" ELSE o
              IN
              IF o = "ok" /\ r.success
                THEN /\ credits' = r.credits
                     /\ txs' = r.txs
                     /\ hist' = [hist EXCEPT !.debited = TRUE, !.debitTried = TRUE,
                                             !.adjustCalls = @ + 1]
                     /\ req' = [req EXCEPT !.pc = "provider", !.newBalance = r.new_balance]
                ELSE /\ credits' = IF o = "ok" THEN r.credits ELSE credits
                     /\ UNCHANGED txs
                     /\ hist' = [hist EXCEPT !.debitTried = TRUE,
                                              !.adjustCalls = @ + 1,
                                              !.rejected = (o = "ok"),
                                              !.unavail = IF o = "ok" THEN @
                                                          ELSE @ \cup {"debit"}]
                     /\ IF cfg.optional
                          THEN req' = [req EXCEPT !.pc = "provider",
                                         !.supabaseSkipped = TRUE,
                                         !.supabaseSkipReason = reason,
                                         !.faults = @ + Fault(o)]
                          ELSE req' = [req EXCEPT !.pc = "catch",
                                         !.faults = @ + Fault(o),
                                         !.err = Unavailable(reason, "adjustCredits")]


\* 7. TRY DEDUCT CREDITS: tryAdjustCredits(userId, -cost, "generation", ..., generationId).
\* adjustCredits throws on success = false; the wrapper classifies that as "other".
DeductCredits ==
  /\ req.pc = "debit"
  /\ UNCHANGED <<ledgerAux, runVars, cfg, gens, storage, resp>>
  /\ IF req.currentBalance = NoRow
       THEN /\ req' = [req EXCEPT !.pc = "provider"]
            /\ UNCHANGED <<credits, txs, hist>>
       ELSE \E o \in SupabaseOutcomes :
              LET r == adjust_credits(req.userId, 0 - cost, "generation", req.generationId)
                  reason == IF o = "ok" THEN "other" ELSE o
              IN
              IF o = "ok" /\ r.success
                THEN /\ credits' = r.credits
                     /\ txs' = r.txs
                     /\ hist' = [hist EXCEPT !.debited = TRUE, !.debitTried = TRUE,
                                             !.adjustCalls = @ + 1]
                     /\ req' = [req EXCEPT !.pc = "provider", !.newBalance = r.new_balance]
                ELSE /\ credits' = IF o = "ok" THEN r.credits ELSE credits
                     /\ UNCHANGED txs
                     /\ hist' = [hist EXCEPT !.debitTried = TRUE,
                                              !.adjustCalls = @ + 1,
                                              !.rejected = (o = "ok"),
                                              !.unavail = IF o = "ok" THEN @
                                                          ELSE @ \cup {"debit"}]
                     /\ IF cfg.optional
                          THEN req' = [req EXCEPT !.pc = "provider",
                                         !.supabaseSkipped = TRUE,
                                         !.supabaseSkipReason = reason,
                                         !.faults = @ + Fault(o)]
                          ELSE req' = [req EXCEPT !.pc = "catch",
                                         !.faults = @ + Fault(o),
                                         !.err = Unavailable(reason, "adjustCredits")]

\* Another session of the same identity commits an adjust_credits call while
\* this request is between its balance check and its debit.
ConcurrentAdjust(amt) ==
  LET r == adjust_credits(TestUser, amt, "generation", PriorSuccess) IN
  /\ req.pc \in {"create", "debit"}
  /\ hist.other < MaxConcurrent
  /\ credits' = r.credits
  /\ txs' = r.txs
  /\ hist' = [hist EXCEPT !.other = @ + 1]
  /\ UNCHANGED <<ledgerAux, runVars, cfg, gens, storage, resp, req>>

\* ------------------------------------------------------------ asset store
\* filePath = `${userId}/${type}/${generationId}.png`
FilePath(u, type, g) == <<u, type, g>>
\* variantGenerationId = i === 0 ? generationId : `${generationId}_v${i}`
VariantId(g, i) == <<g, i>>
\* generationType = model.capability === "video" ? "video" : "photo"
generationType == IF Model.capability = "video" THEN "video" ELSE "photo"

\* upload(filePath, imageBuffer, {upsert: false}): an existing object is an error.
uploadWithoutUpsert(st, u, g, type, bytes) ==
  LET path == FilePath(u, type, g) IN
  IF \E o \in st : o.path = path
    THEN [error |-> TRUE, storage |-> st, publicUrl |-> <<>>]
    ELSE [error |-> FALSE, storage |-> st \cup {[path |-> path, bytes |-> bytes]},
          publicUrl |-> path]

\* uploadGenerationToStorage once the image is downloaded:
\* upload(filePath, imageBuffer, {upsert: true}), then getPublicUrl(filePath).
\* The bucket is a set of objects, one per path.
uploadGenerationToStorage(st, u, g, type, bytes) ==
  LET path == FilePath(u, type, g) IN
  [error |-> FALSE,
   storage |-> {o \in st : o.path # path} \cup {[path |-> path, bytes |-> bytes]},
   publicUrl |-> path]

\* the bytes a public url serves
Resolve(st, publicUrl) == {o.bytes : o \in {x \in st : x.path = publicUrl}}

\* ---------------------------------------------------------------- urls
\* a provider-issued url of variant v; the public url of the object stored at
\* {userId}/{type}/{generationId}[_v{slot-1}].png, holding the bytes of variant v
KieUrl(v) == [src |-> "kie", slot |-> 0, of |-> v]
PublicUrl(slot, v) == [src |-> "storage", slot |-> slot, of |-> v]

\* HTTP-level results of one Kie.ai create-and-poll: 200 is urls, the others
\* are the statusCode of the KieApiError thrown
ProviderStatuses == {200, 402, 502, 504}
VariantStatuses == {200, 502, 504}

IsEditModel == req.modelId = "nano_banana_edit"

\* The top-level catch's mapping of the caught error to a response.
CatchResponse(e) ==
  IF e.kind = "KieApiError"
    THEN Response(e.status,
                  IF e.status = 402 THEN "Insufficient credits on Kie.ai account"
                  ELSE IF e.status = 504 THEN "Task timed out"
                  ELSE e.msg)
    ELSE Response(500, "Inference failed")

\* the error response the call site of tryUpdateGenerationFailed is about to
\* return: the pending response of a site outside the top-level catch, the
\* mapping of the caught error, or the 400 of runSingleInference
Original ==
  IF req.pc = "markfail" THEN Response(req.pendStatus, req.pendError)
  ELSE IF req.pc = "catch" THEN CatchResponse(req.err)
  ELSE Response(400, "Missing imageUrl")

\* tryUpdateGenerationFailed(generationId, msg) as issued at one call site:
\* what it does to the table and to the request's history.
MarkFailedOk(msg) ==
  /\ gens' = UpdateGeneration(req.generationId, "failed",
                              IF req.generationId \in GenIds
                                THEN gens[req.generationId].urls ELSE <<>>, msg)
  /\ hist' = [hist EXCEPT !.termCalls = @ + 1]

MarkFailedThrows ==
  /\ UNCHANGED gens
  /\ hist' = [hist EXCEPT !.termCalls = @ + 1, !.unavail = @ \cup {"markFailed"},
                          !.orig = IF @ = <<>> THEN <<Original>> ELSE @]

\* 8-9. Provider dispatch: the API key checks of the Anthropic and Kie.ai paths.
ProviderDispatch ==
  /\ req.pc = "provider"
  /\ UNCHANGED <<credits, txs, ledgerAux, runVars, cfg, gens, storage, resp, hist>>
  /\ IF ~cfg.providerKey
       THEN req' = [req EXCEPT !.pc = "markfail", !.site = "outer",
                               !.pendStatus = 500, !.pendError = "API key not configured"]
     ELSE IF Model.provider = "anthropic"
       THEN req' = [req EXCEPT !.pc = "anthropic"]
     ELSE IF req.outputsCount = 1
       THEN req' = [req EXCEPT !.pc = "single"]
     ELSE req' = [req EXCEPT !.pc = "window"]

\* await tryUpdateGenerationFailed(...); return NextResponse.json(error):
\* the call sites outside runSingleInference and outside the top-level catch.
\* site "inner" is inside the Anthropic try block (its catch marks failed
\* again), site "outer" throws to the top-level catch.
MarkFailedAndReturn ==
  /\ req.pc = "markfail"
  /\ UNCHANGED <<credits, txs, ledgerAux, runVars, cfg, storage>>
  /\ \E o \in SupabaseOutcomes :
       IF o = "ok"
         THEN /\ MarkFailedOk(req.pendError)
              /\ Return(Response(req.pendStatus, req.pendError))
         ELSE /\ MarkFailedThrows
              /\ UNCHANGED resp
              /\ IF req.site = "inner"
                   THEN req' = [req EXCEPT !.site = "outer", !.pendStatus = 500,
                                  !.pendError = "updateGenerationFailed",
                                  !.faults = @ + Fault(o)]
                   ELSE req' = [req EXCEPT !.pc = "catch", !.faults = @ + Fault(o),
                                  !.err = Unavailable(o, "updateGenerationFailed")]

\* 8. client.messages.create(...): text, no text, or an exception.
AnthropicCall(outcome) ==
  /\ req.pc = "anthropic"
  /\ UNCHANGED <<credits, txs, ledgerAux, runVars, cfg, gens, storage, resp>>
  /\ hist' = [hist EXCEPT !.started = @ + 1, !.provFailed = (outcome # "text")]
  /\ req' = CASE outcome = "text" -> [req EXCEPT !.pc = "anthropic_success"]
              [] outcome = "empty" ->
                   [req EXCEPT !.pc = "markfail", !.site = "inner",
                               !.pendStatus = 500, !.pendError = "No text in response"]
              [] OTHER ->
                   [req EXCEPT !.pc = "markfail", !.site = "outer",
                               !.pendStatus = 500, !.pendError = "Anthropic API error"]

\* tryUpdateGenerationSuccess(generationId, [], ...) and the text response.
AnthropicSuccess ==
  LET textResponse ==
        [NoResp EXCEPT !.status = 200, !.success = TRUE, !.text = TRUE,
                       !.skipped = req.supabaseSkipped, !.reason = req.supabaseSkipReason,
                       !.newBalance = req.newBalance]
  IN
  /\ req.pc = "anthropic_success"
  /\ UNCHANGED <<credits, txs, ledgerAux, runVars, cfg, storage>>
  /\ \E o \in SupabaseOutcomes :
       IF o = "ok"
         THEN /\ gens' = UpdateGeneration(req.generationId, "success", <<>>, Null)
              /\ hist' = [hist EXCEPT !.termCalls = @ + 1, !.markedSuccess = TRUE]
              /\ Return(textResponse)
         ELSE /\ UNCHANGED gens
              /\ hist' = [hist EXCEPT !.termCalls = @ + 1, !.unavail = @ \cup {"finalize"}]
              /\ IF cfg.optional
                   THEN Return(textResponse)
                   ELSE /\ req' = [req EXCEPT !.pc = "markfail", !.site = "outer",
                                      !.pendStatus = 500,
                                      !.pendError = "updateGenerationSuccess",
                                      !.faults = @ + Fault(o)]
                        /\ UNCHANGED resp

\* runSingleInference for an edit model without inputs.imageUrl: it marks the
\* generation failed and returns a NextResponse where its caller expects
\* {urls, taskId, duration}.
MissingImage == IsEditModel /\ ~req.hasImage

\* outputsCount === 1: const result = await runSingleInference();
\* allKieUrls = result.urls; ... allKieUrls.length (line 487).
SingleInference ==
  /\ req.pc = "single"
  /\ UNCHANGED <<credits, txs, ledgerAux, runVars, cfg, storage, resp>>
  /\ IF MissingImage
       THEN \E o \in SupabaseOutcomes :
              IF o = "ok"
                THEN /\ MarkFailedOk("Missing imageUrl")
                     /\ req' = [req EXCEPT !.pc = "catch", !.urlsDefined = FALSE,
                                   !.succeededCount = 1,
                                   !.err = PlainError("TypeError")]
                ELSE /\ MarkFailedThrows
                     /\ req' = [req EXCEPT !.pc = "catch", !.faults = @ + Fault(o),
                                   !.err = Unavailable(o, "updateGenerationFailed")]
       ELSE \E st \in ProviderStatuses :
              /\ UNCHANGED gens
              /\ hist' = [hist EXCEPT !.started = @ + 1, !.settled = @ + 1,
                                       !.okSet = IF st = 200 THEN {1} ELSE {},
                                       !.provFailed = (st # 200),
                                       !.failStatuses = IF st = 200 THEN {} ELSE {st}]
              /\ IF st = 200
                   THEN req' = [req EXCEPT !.pc = "upload", !.allKieUrls = <<KieUrl(1)>>,
                                  !.succeededCount = 1]
                   ELSE req' = [req EXCEPT !.pc = "catch", !.err = KieApiError(st)]

Min(a, b) == IF a < b THEN a ELSE b

\* A batch loop with a single window holding every variant.
WindowStartUnbounded ==
  LET batchSize == req.outputsCount - req.i IN
  /\ req.pc = "window"
  /\ UNCHANGED <<credits, txs, ledgerAux, runVars, cfg, gens, storage, resp>>
  /\ IF req.i < req.outputsCount
       THEN /\ req' = [req EXCEPT !.pc = "running",
                          !.batch = [j \in 1..batchSize |-> "running"]]
            /\ hist' = [hist EXCEPT
                          !.started = @ + (IF MissingImage THEN 0 ELSE batchSize),
                          !.inflight = batchSize]
       ELSE /\ UNCHANGED hist
            /\ IF req.succeededCount = 0
                 THEN req' = [req EXCEPT !.pc = "catch",
                                !.err = PlainError("All generations failed")]
                 ELSE req' = [req EXCEPT !.pc = "upload"]

\* for (i = 0; i < outputsCount; i += CONCURRENCY_LIMIT): the window's
\* runSingleInference() calls are all started before the first await.
WindowStart ==
  LET batchSize == Min(CONCURRENCY_LIMIT, req.outputsCount - req.i) IN
  /\ req.pc = "window"
  /\ UNCHANGED <<credits, txs, ledgerAux, runVars, cfg, gens, storage, resp>>
  /\ IF req.i < req.outputsCount
       THEN /\ req' = [req EXCEPT !.pc = "running",
                          !.batch = [j \in 1..batchSize |-> "running"]]
            /\ hist' = [hist EXCEPT
                          !.started = @ + (IF MissingImage THEN 0 ELSE batchSize),
                          !.inflight = batchSize]
       ELSE /\ UNCHANGED hist
            /\ IF req.succeededCount = 0
                 THEN req' = [req EXCEPT !.pc = "catch",
                                !.err = PlainError("All generations failed")]
                 ELSE req' = [req EXCEPT !.pc = "upload"]

\* One started variant settles: .then(result => success) / .catch(error => failure).
VariantSettles(j) ==
  /\ req.pc = "running"
  /\ j \in DOMAIN req.batch
  /\ req.batch[j] = "running"
  /\ UNCHANGED <<credits, txs, ledgerAux, runVars, cfg, storage, resp>>
  /\ IF MissingImage
       THEN \E o \in SupabaseOutcomes :
              IF o = "ok"
                THEN /\ gens' = UpdateGeneration(req.generationId, "failed",
                                   IF req.generationId \in GenIds
                                     THEN gens[req.generationId].urls ELSE <<>>,
                                   "Missing imageUrl")
                     /\ hist' = [hist EXCEPT !.termCalls = @ + 1, !.inflight = @ - 1]
                     /\ req' = [req EXCEPT !.batch[j] = "response"]
                ELSE /\ UNCHANGED gens
                     /\ hist' = [hist EXCEPT !.termCalls = @ + 1, !.inflight = @ - 1,
                                              !.unavail = @ \cup {"markFailed"},
                                              !.orig = IF @ = <<>> THEN <<Original>>
                                                       ELSE @]
                     /\ req' = [req EXCEPT !.batch[j] = "error", !.faults = @ + Fault(o)]
       ELSE \E st \in VariantStatuses :
              /\ UNCHANGED gens
              /\ hist' = [hist EXCEPT !.inflight = @ - 1, !.settled = @ + 1,
                                       !.okSet = IF st = 200 THEN @ \cup {req.i + j} ELSE @,
                                       !.provFailed = @ \/ st # 200,
                                       !.failStatuses = IF st = 200 THEN @ ELSE @ \cup {st}]
              /\ req' = [req EXCEPT !.batch[j] = IF st = 200 THEN "urls" ELSE "error"]

\* results.forEach after await Promise.all(batch): outcomes in index order.
RECURSIVE CollectUrls(_, _, _)
CollectUrls(batch, j, i) ==
  IF j > Len(batch) THEN <<>>
  ELSE (IF batch[j] = "urls" THEN <<KieUrl(i + j)>> ELSE <<>>) \o CollectUrls(batch, j + 1, i)

CountOf(batch, what) == Cardinality({j \in DOMAIN batch : batch[j] = what})

\* A join that rejects as soon as one variant failed (Promise.all over
\* promises without their own catch), siblings still running.
WindowJoinFailFast ==
  /\ req.pc = "running"
  /\ \/ \A j \in DOMAIN req.batch : req.batch[j] # "running"
     \/ \E j \in DOMAIN req.batch : req.batch[j] = "error"
  /\ UNCHANGED <<credits, txs, ledgerAux, runVars, cfg, gens, storage, resp, hist>>
  /\ IF \E j \in DOMAIN req.batch : req.batch[j] = "error"
       THEN req' = [req EXCEPT !.pc = "catch", !.err = KieApiError(502)]
     ELSE IF \E j \in DOMAIN req.batch : req.batch[j] = "response"
       THEN req' = [req EXCEPT !.pc = "catch", !.urlsDefined = FALSE,
                               !.err = PlainError("TypeError")]
       ELSE req' = [req EXCEPT !.pc = "window",
                      !.allKieUrls = @ \o CollectUrls(req.batch, 1, req.i),
                      !.succeededCount = @ + CountOf(req.batch, "urls"),
                      !.failedCount = @ + CountOf(req.batch, "error"),
                      !.i = @ + CONCURRENCY_LIMIT,
                      !.batch = <<>>]

\* A join that leaves failedCount alone.
WindowJoinNoFailedCount ==
  /\ req.pc = "running"
  /\ \A j \in DOMAIN req.batch : req.batch[j] # "running"
  /\ UNCHANGED <<credits, txs, ledgerAux, runVars, cfg, gens, storage, resp, hist>>
  /\ IF \E j \in DOMAIN req.batch : req.batch[j] = "response"
       THEN req' = [req EXCEPT !.pc = "catch", !.urlsDefined = FALSE,
                               !.err = PlainError("TypeError")]
       ELSE req' = [req EXCEPT !.pc = "window",
                      !.allKieUrls = @ \o CollectUrls(req.batch, 1, req.i),
                      !.succeededCount = @ + CountOf(req.batch, "urls"),
                      !.i = @ + CONCURRENCY_LIMIT,
                      !.batch = <<>>]

\* A join that reads a result without urls as an empty list of urls.
WindowJoinTolerant ==
  /\ req.pc = "running"
  /\ \A j \in DOMAIN req.batch : req.batch[j] # "running"
  /\ UNCHANGED <<credits, txs, ledgerAux, runVars, cfg, gens, storage, resp, hist>>
  /\ req' = [req EXCEPT !.pc = "window",
                 !.allKieUrls = @ \o CollectUrls(req.batch, 1, req.i),
                 !.succeededCount = @ + CountOf(req.batch, "urls")
                                      + CountOf(req.batch, "response"),
                 !.failedCount = @ + CountOf(req.batch, "error"),
                 !.i = @ + CONCURRENCY_LIMIT,
                 !.batch = <<>>]

WindowJoin ==
  /\ req.pc = "running"
  /\ \A j \in DOMAIN req.batch : req.batch[j] # "running"
  /\ UNCHANGED <<credits, txs, ledgerAux, runVars, cfg, gens, storage, resp, hist>>
  /\ IF \E j \in DOMAIN req.batch : req.batch[j] = "response"
       THEN req' = [req EXCEPT !.pc = "catch", !.urlsDefined = FALSE,
                               !.err = PlainError("TypeError")]
       ELSE req' = [req EXCEPT !.pc = "window",
                      !.allKieUrls = @ \o CollectUrls(req.batch, 1, req.i),
                      !.succeededCount = @ + CountOf(req.batch, "urls"),
                      !.failedCount = @ + CountOf(req.batch, "error"),
                      !.i = @ + CONCURRENCY_LIMIT,
                      !.batch = <<>>]

\* Step 10 whose degraded catch keeps the urls collected so far.
UploadNextKeepsPartial ==
  LET k == req.up + 1 IN
  /\ req.pc = "upload"
  /\ UNCHANGED <<credits, txs, ledgerAux, runVars, cfg, gens, resp>>
  /\ IF req.up >= Len(req.allKieUrls)
       THEN /\ req' = [req EXCEPT !.pc = "finalize"]
            /\ UNCHANGED <<storage, hist>>
     ELSE IF req.userId = Null \/ req.generationId = Null
       THEN /\ req' = [req EXCEPT !.up = k, !.publicUrls = Append(@, req.allKieUrls[k])]
            /\ UNCHANGED <<storage, hist>>
     ELSE \E o \in SupabaseOutcomes :
            /\ hist' = [hist EXCEPT !.uploads = @ + 1,
                                     !.unavail = IF o = "ok" THEN @ ELSE @ \cup {"upload"}]
            /\ IF o = "ok"
                 THEN /\ storage' = uploadGenerationToStorage(storage, req.userId,
                                           VariantId(req.generationId, k - 1),
                                           generationType, req.allKieUrls[k].of).storage
                      /\ req' = [req EXCEPT !.up = k, !.publicUrls = Append(@, PublicUrl(k, req.allKieUrls[k].of))]
                 ELSE /\ UNCHANGED storage
                      /\ req' = [req EXCEPT !.pc = "finalize",
                                     !.supabaseSkipped = TRUE,
                                     !.supabaseSkipReason = o,
                                     !.faults = @ + Fault(o)]

\* Step 10 whose catch falls back to the provider urls in either mode.
UploadNextAlwaysFallsBack ==
  LET k == req.up + 1 IN
  /\ req.pc = "upload"
  /\ UNCHANGED <<credits, txs, ledgerAux, runVars, cfg, gens, resp>>
  /\ IF req.up >= Len(req.allKieUrls)
       THEN /\ req' = [req EXCEPT !.pc = "finalize"]
            /\ UNCHANGED <<storage, hist>>
     ELSE IF req.userId = Null \/ req.generationId = Null
       THEN /\ req' = [req EXCEPT !.up = k, !.publicUrls = Append(@, req.allKieUrls[k])]
            /\ UNCHANGED <<storage, hist>>
     ELSE \E o \in SupabaseOutcomes :
            /\ hist' = [hist EXCEPT !.uploads = @ + 1,
                                     !.unavail = IF o = "ok" THEN @ ELSE @ \cup {"upload"}]
            /\ IF o = "ok"
                 THEN /\ storage' = uploadGenerationToStorage(storage, req.userId,
                                           VariantId(req.generationId, k - 1),
                                           generationType, req.allKieUrls[k].of).storage
                      /\ req' = [req EXCEPT !.up = k, !.publicUrls = Append(@, PublicUrl(k, req.allKieUrls[k].of))]
                 ELSE /\ UNCHANGED storage
                      /\ req' = [req EXCEPT !.pc = "finalize",
                                     !.supabaseSkipped = TRUE,
                                     !.supabaseSkipReason = o,
                                     !.publicUrls = req.allKieUrls,
                                     !.faults = @ + Fault(o)]

\* An upload loop that stops after the first output.
UploadNextFirstOnly ==
  LET k == req.up + 1 IN
  /\ req.pc = "upload"
  /\ UNCHANGED <<credits, txs, ledgerAux, runVars, cfg, gens, resp>>
  /\ IF req.up >= 1
       THEN /\ req' = [req EXCEPT !.pc = "finalize"]
            /\ UNCHANGED <<storage, hist>>
     ELSE IF req.userId = Null \/ req.generationId = Null
       THEN /\ req' = [req EXCEPT !.up = k, !.publicUrls = Append(@, req.allKieUrls[k])]
            /\ UNCHANGED <<storage, hist>>
     ELSE \E o \in SupabaseOutcomes :
            /\ hist' = [hist EXCEPT !.uploads = @ + 1,
                                     !.unavail = IF o = "ok" THEN @ ELSE @ \cup {"upload"}]
            /\ IF o = "ok"
                 THEN /\ storage' = uploadGenerationToStorage(storage, req.userId,
                                           VariantId(req.generationId, k - 1),
                                           generationType, req.allKieUrls[k].of).storage
                      /\ req' = [req EXCEPT !.up = k, !.publicUrls = Append(@, PublicUrl(k, req.allKieUrls[k].of))]
                 ELSE /\ UNCHANGED storage
                      /\ IF cfg.optional
                           THEN req' = [req EXCEPT !.pc = "finalize",
                                          !.supabaseSkipped = TRUE,
                                          !.supabaseSkipReason = o,
                                          !.publicUrls = req.allKieUrls,
                                          !.faults = @ + Fault(o)]
                           ELSE req' = [req EXCEPT !.pc = "markfail", !.site = "outer",
                                          !.pendStatus = 500,
                                          !.pendError = "Storage upload failed",
                                          !.faults = @ + Fault(o)]

\* 10. TRY UPLOAD TO STORAGE: one tryUploadToStorage per url of allKieUrls.
UploadNext ==
  LET k == req.up + 1 IN
  /\ req.pc = "upload"
  /\ UNCHANGED <<credits, txs, ledgerAux, runVars, cfg, gens, resp>>
  /\ IF req.up >= Len(req.allKieUrls)
       THEN /\ req' = [req EXCEPT !.pc = "finalize"]
            /\ UNCHANGED <<storage, hist>>
     ELSE IF req.userId = Null \/ req.generationId = Null
       THEN /\ req' = [req EXCEPT !.up = k, !.publicUrls = Append(@, req.allKieUrls[k])]
            /\ UNCHANGED <<storage, hist>>
     ELSE \E o \in SupabaseOutcomes :
            /\ hist' = [hist EXCEPT !.uploads = @ + 1,
                                     !.unavail = IF o = "ok" THEN @ ELSE @ \cup {"upload"}]
            /\ IF o = "ok"
                 THEN /\ storage' = uploadGenerationToStorage(storage, req.userId,
                                           VariantId(req.generationId, k - 1),
                                           generationType, req.allKieUrls[k].of).storage
                      /\ req' = [req EXCEPT !.up = k, !.publicUrls = Append(@, PublicUrl(k, req.allKieUrls[k].of))]
                 ELSE /\ UNCHANGED storage
                      /\ IF cfg.optional
                           THEN req' = [req EXCEPT !.pc = "finalize",
                                          !.supabaseSkipped = TRUE,
                                          !.supabaseSkipReason = o,
                                          !.publicUrls = req.allKieUrls,
                                          !.faults = @ + Fault(o)]
                           ELSE req' = [req EXCEPT !.pc = "markfail", !.site = "outer",
                                          !.pendStatus = 500,
                                          !.pendError = "Storage upload failed",
                                          !.faults = @ + Fault(o)]

\* 11. TRY UPDATE GENERATION STATUS: tryUpdateGenerationSuccess(generationId, publicUrls).
FinalizeSuccess ==
  /\ req.pc = "finalize"
  /\ UNCHANGED <<credits, txs, ledgerAux, runVars, cfg, storage, resp>>
  /\ \E o \in SupabaseOutcomes :
       IF o = "ok"
         THEN /\ gens' = UpdateGeneration(req.generationId, "success", req.publicUrls, Null)
              /\ hist' = [hist EXCEPT !.termCalls = @ + 1, !.markedSuccess = TRUE]
              /\ req' = [req EXCEPT !.pc = "respond"]
         ELSE /\ UNCHANGED gens
              /\ hist' = [hist EXCEPT !.termCalls = @ + 1, !.unavail = @ \cup {"finalize"}]
              /\ IF cfg.optional
                   THEN req' = [req EXCEPT !.pc = "respond", !.supabaseSkipped = TRUE,
                                  !.supabaseSkipReason = o, !.faults = @ + Fault(o)]
                   ELSE req' = [req EXCEPT !.pc = "catch", !.faults = @ + Fault(o),
                                  !.err = Unavailable(o, "updateGenerationSuccess")]

\* A response that reports the balance read at step 5.
RespondStaleBalance ==
  /\ req.pc = "respond"
  /\ UNCHANGED <<credits, txs, ledgerAux, runVars, cfg, gens, storage, hist>>
  /\ Return([NoResp EXCEPT !.status = 200, !.success = TRUE, !.urls = req.publicUrls,
                           !.generationId = req.generationId,
                           !.newBalance = req.currentBalance,
                           !.skipped = req.supabaseSkipped,
                           !.reason = IF req.supabaseSkipped THEN req.supabaseSkipReason
                                      ELSE Null,
                           !.succeededCount = req.succeededCount,
                           !.failedCount = req.failedCount])

\* 12. RETURN RESPONSE.
Respond ==
  /\ req.pc = "respond"
  /\ UNCHANGED <<credits, txs, ledgerAux, runVars, cfg, gens, storage, hist>>
  /\ Return([NoResp EXCEPT !.status = 200, !.success = TRUE, !.urls = req.publicUrls,
                           !.generationId = req.generationId,
                           !.newBalance = req.newBalance,
                           !.skipped = req.supabaseSkipped,
                           !.reason = IF req.supabaseSkipped THEN req.supabaseSkipReason
                                      ELSE Null,
                           !.succeededCount = req.succeededCount,
                           !.failedCount = req.failedCount])

\* a top-level catch that hands the debited credits back before it answers
TopCatchRefunds ==
  LET r == adjust_credits(req.userId, cost, "refund", req.generationId) IN
  /\ req.pc = "catch"
  /\ UNCHANGED <<ledgerAux, runVars, cfg, storage>>
  /\ IF hist.debited
       THEN credits' = r.credits /\ txs' = r.txs
       ELSE UNCHANGED <<credits, txs>>
  /\ IF req.generationId = Null
       THEN UNCHANGED <<gens, hist>>
       ELSE MarkFailedOk(req.err.msg)
  /\ Return(IF req.err.kind = "KieApiError"
              THEN Response(req.err.status, req.err.msg)
              ELSE Response(500, "Inference failed"))

\* a top-level catch that maps the error without touching the record
TopCatchNoMarkFailed ==
  /\ req.pc = "catch"
  /\ UNCHANGED <<credits, txs, ledgerAux, runVars, cfg, storage, gens, hist>>
  /\ Return(IF req.err.kind = "KieApiError"
              THEN Response(req.err.status, req.err.msg)
              ELSE Response(500, "Inference failed"))

\* The top-level catch: best-effort tryUpdateGenerationFailed (its own failure
\* is logged), then the KieApiError / generic mapping.
TopCatch ==
  LET e == req.err
      r == CatchResponse(e)
  IN
  /\ req.pc = "catch"
  /\ UNCHANGED <<credits, txs, ledgerAux, runVars, cfg, storage>>
  /\ IF req.generationId = Null
       THEN /\ UNCHANGED <<gens, hist>>
            /\ Return(r)
       ELSE \E o \in SupabaseOutcomes :
              /\ IF o = "ok" THEN MarkFailedOk(e.msg) ELSE MarkFailedThrows
              /\ Return(r)

Init ==
  /\ cfg \in [optional : BOOLEAN, mock : BOOLEAN, env : EnvStates,
              anon : {"off", "valid", "invalid"}, providerKey : BOOLEAN]
  /\ credits \in [Users -> {NoRow, Row(5), Row(10)}]
  /\ txs = <<>>
  /\ gens = InitialGens
  /\ storage = {}
  /\ req = IdleReq
  /\ hist = NoHist
  /\ resp = NoResp
  /\ base = [u \in Users |-> Balance(u)]
  /\ rowLock = [u \in Users |-> NoOne]
  /\ call = [c \in Callers |-> IdleCall]
  /\ ncalls = 0
  /\ okSum = [u \in Users |-> 0]
  /\ okCount = [u \in Users |-> 0]
  /\ failCount = [u \in Users |-> 0]
  /\ lastReport = NoReport
  /\ RunIdle

Next ==
  \/ \E session \in BOOLEAN, m \in RequestModelIds, hasImage \in BOOLEAN,
        n \in 0..MaxOutputs : NewRequest(session, m, hasImage, n)
  \/ Authenticate
  \/ ParseRequest
  \/ CheckCredits
  \/ CreateRecord
  \/ DeductCredits
  \/ \E amt \in ConcurrentAmounts : ConcurrentAdjust(amt)
  \/ ProviderDispatch
  \/ MarkFailedAndReturn
  \/ \E outcome \in {"text", "empty", "throws"} : AnthropicCall(outcome)
  \/ AnthropicSuccess
  \/ SingleInference
  \/ WindowStart
  \/ \E j \in 1..CONCURRENCY_LIMIT : VariantSettles(j)
  \/ WindowJoin
  \/ UploadNext
  \/ FinalizeSuccess
  \/ Respond
  \/ TopCatch

Spec == Init /\ [][Next]_vars

\* ------------------------------------------------ the same request, again
\* what an execution leaves for the comparison with the next one
Outcome ==
  [success |-> resp.success, status |-> resp.status, skipped |-> resp.skipped,
   reason |-> resp.reason, provFailed |-> hist.provFailed,
   ledgerDown |-> (cfg.env # "ok" \/ "balance" \in hist.unavail),
   touched |-> (hist.balanceRead # NoRow \/ hist.debitTried)]

\* a request that passes steps 2-3 and names what its model needs
ValidRequest == Model.enabled /\ ~MissingImage /\ req.outputsCount >= 1

\* The client sends the request of the finished execution once more: a valid
\* request, run against an unreachable ledger, whose provider did not fail.
\* The handler draws a new generationId; the rows and objects of the finished
\* execution stay in the tables under the id it drew.
Rerun ==
  /\ req.pc = "done"
  /\ Len(prev) + 1 < MaxRuns
  /\ ValidRequest /\ Outcome.ledgerDown /\ ~hist.provFailed
  /\ prev' = Append(prev, Outcome)
  /\ req' = [IdleReq EXCEPT !.pc = "auth", !.session = req.session,
                            !.modelId = req.modelId, !.hasImage = req.hasImage,
                            !.outputsCount = req.outputsCount]
  /\ hist' = [NoHist EXCEPT !.balanceAtStart = Balance(TestUser)]
  /\ resp' = NoResp
  /\ gens' = [gens EXCEPT ![PriorRun] = gens[ThisGen], ![ThisGen] = NoGen]
  /\ txs' = [k \in DOMAIN txs |->
               IF txs[k].gen = ThisGen THEN [txs[k] EXCEPT !.gen = PriorRun] ELSE txs[k]]
  /\ storage' = {IF o.path[3][1] = ThisGen
                   THEN [o EXCEPT !.path = FilePath(o.path[1], o.path[2],
                                                    VariantId(PriorRun, o.path[3][2]))]
                   ELSE o : o \in storage}
  /\ UNCHANGED <<credits, ledgerAux, cfg, uploadLog, poll, reads, app, sessions>>

\* degraded mode, provider key set, mock off
InitRerun ==
  /\ cfg \in [optional : {TRUE}, mock : {FALSE}, env : EnvStates,
              anon : {"off", "valid"}, providerKey : {TRUE}]
  /\ credits \in [Users -> {Row(10)}]
  /\ txs = <<>>
  /\ gens = InitialGens
  /\ storage = {}
  /\ req = IdleReq
  /\ hist = NoHist
  /\ resp = NoResp
  /\ base = [u \in Users |-> Balance(u)]
  /\ rowLock = [u \in Users |-> NoOne]
  /\ call = [c \in Callers |-> IdleCall]
  /\ ncalls = 0
  /\ okSum = [u \in Users |-> 0]
  /\ okCount = [u \in Users |-> 0]
  /\ failCount = [u \in Users |-> 0]
  /\ lastReport = NoReport
  /\ RunIdle

NextRerun ==
  \/ Next
  \/ Rerun

SpecRerun == InitRerun /\ [][NextRerun]_vars

\* ------------------------------------------------- the asset store, called
\* byte strings a provider url serves at the time of a call
Bytes == {"b1", "b2"}
Kinds == {"photo", "video"}

\* uploadGenerationToStorage(userId, generationId, imageUrl, type): the image
\* is downloaded (bytes), written at its path and the public url returned.
Persist(u, g, type, bytes) ==
  LET r == uploadGenerationToStorage(storage, u, VariantId(g, 0), type, bytes) IN
  /\ Len(uploadLog) < MaxPersist
  /\ storage' = r.storage
  /\ uploadLog' = Append(uploadLog,
                         [user |-> u, gen |-> g, type |-> type, bytes |-> bytes,
                          error |-> r.error, publicUrl |-> r.publicUrl])
  /\ UNCHANGED <<credits, txs, ledgerAux, cfg, gens, req, hist, resp, prev, poll, reads, app, sessions>>

InitStorage ==
  /\ credits \in [Users -> {NoRow, Row(10)}]
  /\ txs = <<>>
  /\ base = [u \in Users |-> Balance(u)]
  /\ rowLock = [u \in Users |-> NoOne]
  /\ call = [c \in Callers |-> IdleCall]
  /\ ncalls = 0
  /\ okSum = [u \in Users |-> 0]
  /\ okCount = [u \in Users |-> 0]
  /\ failCount = [u \in Users |-> 0]
  /\ lastReport = NoReport
  /\ HandlerIdle
  /\ RunIdle

NextStorage ==
  \E u \in Users, g \in {ThisGen, PriorRun}, type \in Kinds, bytes \in Bytes :
    Persist(u, g, type, bytes)

SpecStorage == InitStorage /\ [][NextStorage]_vars

\* ------------------------------------------- inferMarket / inferVeo, stepwise
\* milliseconds; a fetch takes no time or MaxFetchMs
FetchDurations == {0, MaxFetchMs}
\* statuses of a response with !response.ok
HttpErrorStatuses == {402, 500}
\* what one GET recordInfo / record-info answers: the task still waiting,
\* queuing or generating; state success (successFlag 1) with result urls;
\* state success without resultJson or with an empty url list; state fail
\* (successFlag -1); a response that is not ok
PollAnswers == {"processing", "success", "success_empty", "fail", "http_error"}
TerminalStates == {"success", "fail"}

Elapsed == poll.now - poll.startTime

\* inferMarket(apiKey, model, input) / inferVeo(apiKey, prompt, aspectRatio) is called
InferStart(api) ==
  /\ poll.pc = "idle"
  /\ poll' = [poll EXCEPT !.pc = "create", !.api = api]
  /\ UNCHANGED <<credits, txs, ledgerAux, handlerVars, prev, uploadLog, reads, app, sessions>>

\* createMarketTask / createVeoTask: one POST; a response that is not ok, or
\* code !== 200 / no taskId, throws; otherwise the poll starts
\* (startTime = Date.now(), attempts = 0).
CreateTask(d, answer, status) ==
  /\ poll.pc = "create"
  /\ poll' = IF answer = "taskId"
              THEN [poll EXCEPT !.pc = "loop", !.created = @ + 1, !.taskId = TRUE,
                                !.now = @ + d, !.startTime = poll.now + d]
              ELSE [poll EXCEPT !.pc = "done", !.created = @ + 1, !.now = @ + d,
                                !.outcome = Thrown(status)]
  /\ UNCHANGED <<credits, txs, ledgerAux, handlerVars, prev, uploadLog, reads, app, sessions>>

\* while (Date.now() - startTime < timeoutMs) { attempts++; ... }, and the
\* KieApiError 504 after the loop
LoopTest ==
  /\ poll.pc = "loop"
  /\ poll' = IF Elapsed < timeoutMs
              THEN [poll EXCEPT !.pc = "fetch", !.attempts = @ + 1]
              ELSE [poll EXCEPT !.pc = "done", !.outcome = Thrown(504)]
  /\ UNCHANGED <<credits, txs, ledgerAux, handlerVars, prev, uploadLog, reads, app, sessions>>

\* A poll that reads state fail as still processing.
PollIgnoresFail(d, answer, status) ==
  /\ poll.pc = "fetch"
  /\ poll' =
       CASE answer = "http_error" ->
              [poll EXCEPT !.pc = "done", !.polls = @ + 1, !.now = @ + d,
                           !.outcome = Thrown(status)]
         [] answer = "success" ->
              [poll EXCEPT !.pc = "done", !.polls = @ + 1, !.now = @ + d,
                           !.lastState = "success", !.outcome = Urls(1)]
         [] answer = "success_empty" ->
              [poll EXCEPT !.pc = "done", !.polls = @ + 1, !.now = @ + d,
                           !.lastState = "success", !.outcome = Thrown(500)]
         [] answer = "fail" ->
              [poll EXCEPT !.pc = "sleep", !.polls = @ + 1, !.now = @ + d,
                           !.lastState = "fail"]
         [] OTHER ->
              [poll EXCEPT !.pc = "sleep", !.polls = @ + 1, !.now = @ + d,
                           !.lastState = "processing"]
  /\ UNCHANGED <<credits, txs, ledgerAux, handlerVars, prev, uploadLog, reads, app, sessions>>

\* One GET and the handling of its answer.
Poll(d, answer, status) ==
  /\ poll.pc = "fetch"
  /\ poll' =
       CASE answer = "http_error" ->
              [poll EXCEPT !.pc = "done", !.polls = @ + 1, !.now = @ + d,
                           !.outcome = Thrown(status)]
         [] answer = "success" ->
              [poll EXCEPT !.pc = "done", !.polls = @ + 1, !.now = @ + d,
                           !.lastState = "success", !.outcome = Urls(1)]
         [] answer = "success_empty" ->
              [poll EXCEPT !.pc = "done", !.polls = @ + 1, !.now = @ + d,
                           !.lastState = "success", !.outcome = Thrown(500)]
         [] answer = "fail" ->
              [poll EXCEPT !.pc = "done", !.polls = @ + 1, !.now = @ + d,
                           !.lastState = "fail", !.outcome = Thrown(502)]
         [] OTHER ->
              [poll EXCEPT !.pc = "sleep", !.polls = @ + 1, !.now = @ + d,
                           !.lastState = "processing"]
  /\ UNCHANGED <<credits, txs, ledgerAux, handlerVars, prev, uploadLog, reads, app, sessions>>

\* await new Promise(resolve => setTimeout(resolve, 2000))
Sleep ==
  /\ poll.pc = "sleep"
  /\ poll' = [poll EXCEPT !.pc = "loop", !.now = @ + PollIntervalMs]
  /\ UNCHANGED <<credits, txs, ledgerAux, handlerVars, prev, uploadLog, reads, app, sessions>>

InitPoll ==
  /\ credits = [u \in Users |-> Row(10)]
  /\ txs = <<>>
  /\ base = [u \in Users |-> Balance(u)]
  /\ rowLock = [u \in Users |-> NoOne]
  /\ call = [c \in Callers |-> IdleCall]
  /\ ncalls = 0
  /\ okSum = [u \in Users |-> 0]
  /\ okCount = [u \in Users |-> 0]
  /\ failCount = [u \in Users |-> 0]
  /\ lastReport = NoReport
  /\ HandlerIdle
  /\ RunIdle

NextPoll ==
  \/ \E api \in {"market", "veo"} : InferStart(api)
  \/ \E d \in FetchDurations, answer \in {"taskId", "http_error", "invalid"},
        status \in HttpErrorStatuses : CreateTask(d, answer, status)
  \/ LoopTest
  \/ \E d \in FetchDurations, answer \in PollAnswers, status \in HttpErrorStatuses :
        Poll(d, answer, status)
  \/ Sleep

\* every awaited fetch and timer settles, and the continuation then runs
SpecPoll == InitPoll /\ [][NextPoll]_vars /\ WF_vars(NextPoll)

\* ------------------------------------------------ get_user_balance, stepwise
\* A session calls the RPC get_user_balance(p_user_id).
BalanceBegin(c, u) ==
  /\ call[c].pc = "idle"
  /\ ncalls < MaxCalls
  /\ ncalls' = ncalls + 1
  /\ call' = [call EXCEPT ![c] = [IdleCall EXCEPT !.pc = "bal_select", !.user = u]]
  /\ UNCHANGED <<credits, txs, rowLock, base, okSum, okCount, failCount, lastReport,
                 handlerVars, runVars>>

\* SELECT amount INTO v_balance FROM credits WHERE user_id = p_user_id: a
\* plain read of the committed rows; FOUND returns the amount.
BalanceSelect(c) ==
  LET u == call[c].user IN
  /\ call[c].pc = "bal_select"
  /\ IF credits[u] # NoRow
       THEN /\ reads' = Append(reads, [user |-> u, error |-> FALSE,
                                       balance |-> Balance(u), inserted |-> FALSE])
            /\ call' = [call EXCEPT ![c] = IdleCall]
       ELSE /\ call' = [call EXCEPT ![c].pc = "bal_insert"]
            /\ UNCHANGED reads
  /\ UNCHANGED <<credits, txs, rowLock, ncalls, base, okSum, okCount, failCount,
                 lastReport, handlerVars, prev, uploadLog, poll, app, sessions>>

\* IF NOT FOUND THEN INSERT INTO credits (user_id, amount) VALUES (p_user_id, 0)
\* RETURNING amount: user_id is UNIQUE and the statement has no ON CONFLICT.
\* With a committed row of the user the insert raises unique_violation and the
\* RPC returns an error (getUserBalance throws); with an uncommitted insert of
\* another session it waits for that transaction to end; otherwise the row is
\* inserted, the function returns 0 and the transaction commits.
BalanceInsert(c) ==
  LET u == call[c].user IN
  /\ call[c].pc = "bal_insert"
  /\ credits[u] # NoRow \/ rowLock[u] = NoOne
  /\ IF credits[u] # NoRow
       THEN /\ UNCHANGED credits
            /\ reads' = Append(reads, [user |-> u, error |-> TRUE, balance |-> 0,
                                       inserted |-> FALSE])
       ELSE /\ credits' = [credits EXCEPT ![u] = Row(0)]
            /\ reads' = Append(reads, [user |-> u, error |-> FALSE, balance |-> 0,
                                       inserted |-> TRUE])
  /\ call' = [call EXCEPT ![c] = IdleCall]
  /\ UNCHANGED <<txs, rowLock, ncalls, base, okSum, okCount, failCount,
                 lastReport, handlerVars, prev, uploadLog, poll, app, sessions>>

\* identities without a row in credits
InitFirstUse ==
  /\ credits = [u \in Users |-> NoRow]
  /\ base = [u \in Users |-> 0]
  /\ txs = <<>>
  /\ rowLock = [u \in Users |-> NoOne]
  /\ call = [c \in Callers |-> IdleCall]
  /\ ncalls = 0
  /\ okSum = [u \in Users |-> 0]
  /\ okCount = [u \in Users |-> 0]
  /\ failCount = [u \in Users |-> 0]
  /\ lastReport = NoReport
  /\ HandlerIdle
  /\ RunIdle

NextFirstUse ==
  \/ \E c \in Callers, u \in Users : BalanceBegin(c, u)
  \/ \E c \in Callers : BalanceSelect(c)
  \/ \E c \in Callers : BalanceInsert(c)
  \/ \E c \in Callers, u \in Users, amt \in Amounts, ty \in Types : AdjustBegin(c, u, amt, ty)
  \/ \E c \in Callers : EnsureCreditsRow(c)
  \/ \E c \in Callers : LockRow(c)
  \/ \E c \in Callers : CheckInsufficient(c)
  \/ \E c \in Callers : UpdateCredits(c)
  \/ \E c \in Callers : LogTransaction(c)
  \/ \E c \in Callers : ReturnSuccess(c)
  \/ \E c \in Callers : ReturnInsufficient(c)
  \/ \E c \in Callers : ExceptionHandler(c)

SpecFirstUse == InitFirstUse /\ [][NextFirstUse]_vars

InitLedger ==
  /\ credits \in [Users -> {NoRow, Row(10)}]
  /\ base = [u \in Users |-> Balance(u)]
  /\ txs = <<>>
  /\ rowLock = [u \in Users |-> NoOne]
  /\ call = [c \in Callers |-> IdleCall]
  /\ ncalls = 0
  /\ okSum = [u \in Users |-> 0]
  /\ okCount = [u \in Users |-> 0]
  /\ failCount = [u \in Users |-> 0]
  /\ lastReport = NoReport
  /\ HandlerIdle
  /\ RunIdle

NextLedger ==
  \/ \E c \in Callers, u \in Users, amt \in Amounts, ty \in Types : AdjustBegin(c, u, amt, ty)
  \/ \E c \in Callers : EnsureCreditsRow(c)
  \/ \E c \in Callers : LockRow(c)
  \/ \E c \in Callers : CheckInsufficient(c)
  \/ \E c \in Callers : UpdateCredits(c)
  \/ \E c \in Callers : LogTransaction(c)
  \/ \E c \in Callers : ReturnSuccess(c)
  \/ \E c \in Callers : ReturnInsufficient(c)
  \/ \E c \in Callers : ExceptionHandler(c)

SpecLedger == InitLedger /\ [][NextLedger]_vars

\* ================================================================ claims
\* ---------------------------------------------------------------- ledger

InCriticalSection(c) ==
  call[c].pc \in {"calc", "update", "log", "return", "reject", "exception"}

\* C1: over every sequence of adjust_credits calls on an identity the stored
\* balance is never negative, each call that reported success added exactly
\* one transaction row and each call that reported failure added none (the
\* identity's rows are as many as its successful calls, in every state).
C1_LedgerNonNegative ==
  \A u \in Users :
    /\ Balance(u) >= 0
    /\ Len(RowsOf(u)) = okCount[u]

\* a successful call, then a call that reported failure and left the rows alone
C1_Witness ==
  /\ okCount["u1"] >= 1
  /\ failCount["u1"] >= 1
  /\ ~lastReport.success
  /\ lastReport.user = "u1"
  /\ Balance("u1") < 8

\* C2: adjust_credits is atomic across concurrent callers: the committed
\* balance is the initial balance plus the amounts of exactly the calls that
\* reported success, and no two calls on one identity are between reading the
\* starting balance and committing at the same time.
C2_NoLostUpdate ==
  \A u \in Users :
    /\ Balance(u) = base[u] + okSum[u]
    /\ Cardinality({c \in Callers : call[c].user = u /\ InCriticalSection(c)}) <= 1

\* two debits of one identity in flight: one has written its new balance and
\* not committed, the other waits at SELECT ... FOR UPDATE
C2_Witness ==
  \E c1, c2 \in Callers :
    /\ c1 # c2
    /\ call[c1].user = call[c2].user
    /\ call[c1].amount < 0 /\ call[c2].amount < 0
    /\ call[c1].pc = "return"
    /\ call[c2].pc = "lock"
    /\ okCount[call[c1].user] >= 1

\* C3: for an identity materialized at balance 0 the balance equals the sum
\* of the amounts of its transaction rows in every state, also after a call
\* failed between its UPDATE and its INSERT and was rolled back.
C3_Reconciles ==
  \A u \in Users :
    base[u] = 0 => Balance(u) = SumAmounts(RowsOf(u))

\* a call that had updated the balance raised, was rolled back and reported
\* failure, on an identity that holds credits from an earlier call
C3_Witness ==
  /\ base["u1"] = 0
  /\ lastReport.rolledBack
  /\ ~lastReport.success
  /\ okCount["u1"] >= 1
  /\ Balance("u1") > 0

\* --------------------------------------------------------------- handler

Done == req.pc = "done"
Strict == ~cfg.optional
DebitsOf(g) == {k \in DOMAIN txs : txs[k].gen = g /\ txs[k].amount < 0}
DebitOfCost(g) == \E k \in DebitsOf(g) : txs[k].amount = 0 - cost /\ txs[k].user = req.userId
AllAvailable == cfg.env = "ok" /\ cfg.providerKey /\ ~cfg.mock /\ req.faults = 0
BalanceCovers == hist.balanceRead # NoRow /\ hist.balanceRead[1] >= cost
Ascending(urls) == \A a, b \in DOMAIN urls : a < b => urls[a].of < urls[b].of
OriginsOf(urls) == {urls[k].of : k \in DOMAIN urls}

\* C4 (as stated): every response with success = true has, when it is
\* produced, a ledger debit linked to the request's generation id whose
\* amount is the model's credit cost.
C4_Original ==
  (Done /\ resp.success) => DebitOfCost(ThisGen)

\* C4 (amended): in strict mode with mock mode off, every response with
\* success = true has a ledger debit of the model's credit cost linked to the
\* request's generation id (the id a url response carries in its meta), and no
\* provider invocation starts before that debit exists.
C4_DebitBeforeOutput ==
  (Strict /\ ~cfg.mock) =>
    /\ (Done /\ resp.success) =>
         /\ DebitOfCost(ThisGen)
         /\ ~resp.text => resp.generationId = ThisGen
    /\ hist.started > 0 => DebitOfCost(ThisGen)

\* a strict-mode batch answered with two urls after its debit
C4_Witness ==
  /\ Done /\ resp.success /\ Strict /\ ~cfg.mock
  /\ Len(resp.urls) >= 2
  /\ resp.generationId = ThisGen
  /\ hist.debited
  /\ resp.newBalance = Row(hist.balanceAtStart - cost)

\* C5 (as stated): a batch of N variants fails if and only if all N provider
\* invocations failed.
C5_Original ==
  (Done /\ req.outputsCount >= 2 /\ hist.settled = req.outputsCount) =>
    (resp.success <=> hist.okSet # {})

\* C5 (amended): a batch whose N provider invocations all failed is answered
\* with a failure; every success response of a batch holds exactly the
\* outputs of the k > 0 variants that succeeded, in variant order, with
\* succeededCount = k and failedCount = N - k; a batch with k > 0 can still be
\* answered with a failure when a later step (upload, finalize) fails.
C5_AtLeastOneSuccess ==
  (Done /\ req.outputsCount >= 2 /\ hist.settled = req.outputsCount) =>
    /\ hist.okSet = {} => ~resp.success
    /\ resp.success =>
         /\ hist.okSet # {}
         /\ Len(resp.urls) = Cardinality(hist.okSet)
         /\ OriginsOf(resp.urls) = hist.okSet
         /\ Ascending(resp.urls)
         /\ resp.succeededCount = Cardinality(hist.okSet)
         /\ resp.failedCount = req.outputsCount - Cardinality(hist.okSet)

\* N = 4, variant 2 failed: success with the urls of variants 1, 3 and 4
C5_Witness ==
  /\ Done /\ resp.success
  /\ req.outputsCount = 4
  /\ hist.okSet = {1, 3, 4}
  /\ Len(resp.urls) = 3
  /\ resp.succeededCount = 3 /\ resp.failedCount = 1

\* C6: once a generation record has status success or failed, no step of the
\* handler (exception path included) changes its status to another value.
C6_NoBackwardTransition ==
  [][\A g \in GenIds :
       gens[g].status \in {"success", "failed"} => gens'[g].status = gens[g].status]_vars

\* a record already failed receives a second terminal call and stays failed
C6_Witness ==
  /\ Done
  /\ gens[ThisGen].status = "failed"
  /\ hist.termCalls >= 2
  /\ gens[PriorSuccess].status = "success"

\* C7 (as stated): a request that created a generation record issues exactly
\* one terminal record call (markSuccess or markFailed) over its execution;
\* read here over the executions in which every collaborator call answers.
C7_ExactlyOneTerminalCall ==
  (Done /\ hist.created /\ AllAvailable) => hist.termCalls = 1

\* edit model, no imageUrl, outputsCount 1, every collaborator available:
\* the record was marked failed twice
C7_Witness ==
  /\ Done /\ hist.created /\ AllAvailable /\ hist.other = 0
  /\ MissingImage /\ req.outputsCount = 1
  /\ hist.termCalls = 2
  /\ gens[ThisGen].status = "failed"

\* C8 (as stated): a ledger debit linked to generation id g exists only if
\* the record g was created earlier in status processing, and no provider
\* invocation starts before record creation.
C8_RecordBeforeDebit ==
  /\ DebitsOf(ThisGen) # {} => hist.created /\ gens[ThisGen].status # "none"
  /\ hist.started > 0 => hist.created

\* degraded mode: createGeneration failed and was swallowed, the debit went
\* through and the provider ran
C8_Witness ==
  /\ cfg.optional /\ cfg.env = "ok"
  /\ DebitOfCost(ThisGen)
  /\ gens[ThisGen].status = "none"
  /\ ~hist.created
  /\ hist.started > 0

\* C9: when the balance read returns less than the model's credit cost the
\* request ends with status 402 and the error "Insufficient credits"; no
\* generation record is created, no debit is attempted, no provider is invoked.
C9_InsufficientBalance ==
  (hist.balanceRead # NoRow /\ hist.balanceRead[1] < cost) =>
    /\ Done
    /\ resp.status = 402 /\ ~resp.success /\ resp.error = "Insufficient credits"
    /\ ~hist.created /\ gens[ThisGen].status = "none"
    /\ ~hist.debitTried /\ RowsOfGen(ThisGen) = <<>>
    /\ Balance(TestUser) = hist.balanceAtStart
    /\ hist.started = 0

\* balance 5, cost 8
C9_Witness ==
  /\ Done
  /\ hist.balanceRead = Row(5)
  /\ cost = 8
  /\ resp.status = 402

\* C10 (as stated): an edit-model request without imageUrl (collaborators
\* available, balance sufficient) ends with status 400, is not debited, leaves
\* the balance unchanged and creates no provider task.
C10_MissingImageRejected ==
  (Done /\ MissingImage /\ req.outputsCount >= 1
        /\ AllAvailable /\ BalanceCovers /\ hist.other = 0) =>
    /\ resp.status = 400
    /\ ~hist.debited
    /\ Balance(TestUser) = hist.balanceAtStart
    /\ hist.started = 0

\* the request was debited and answered 500
C10_Witness ==
  /\ Done /\ MissingImage /\ req.outputsCount >= 2
  /\ AllAvailable /\ BalanceCovers /\ hist.other = 0
  /\ resp.status = 500
  /\ hist.debited
  /\ Balance(TestUser) = hist.balanceAtStart - cost
  /\ hist.started = 0

\* ------------------------------------------------------ strict and degraded

GuardedCalls == {"balance", "create", "debit", "upload", "finalize"}
LedgerCalls == {"balance", "debit"}

\* C11 (as stated): in strict mode, whenever a Guard-wrapped call (balance
\* read, record create, debit, asset persist, record finalize) fails with a
\* classified unavailability error, the request ends with a 503 response.
C11_StrictUnavailable503 ==
  (Done /\ Strict /\ hist.unavail \cap GuardedCalls # {}) => resp.status = 503

\* strict mode, createGeneration unavailable: the request ends with 500
C11_Witness ==
  /\ Done /\ Strict
  /\ hist.unavail = {"create"}
  /\ resp.status = 500
  /\ resp.error = "Inference failed"

\* C12: in strict mode, once a ledger call of the request (the balance read
\* or the debit) has thrown, unavailable or rejected, no provider invocation
\* is started for that request.
C12_StrictLedgerFailureNoProvider ==
  (Strict /\ (hist.unavail \cap LedgerCalls # {} \/ hist.rejected)) =>
    /\ hist.started = 0
    /\ hist.inflight = 0
    /\ req.pc \in {"catch", "done"}
    /\ Done => ~resp.success

\* Scenario E: the debit threw a network error after the record was created
C12_Witness ==
  /\ Done /\ Strict
  /\ "debit" \in hist.unavail
  /\ hist.created
  /\ hist.started = 0
  /\ resp.status = 500

\* C13 (as stated): in degraded mode, when the ledger rejects the debit for
\* insufficient funds, the rejection is not suppressed: no provider is invoked
\* and the request ends with an insufficient-funds (402) error.
C13_RejectionNotSwallowed ==
  (cfg.optional /\ hist.rejected) =>
    /\ hist.started = 0
    /\ Done => (resp.status = 402 /\ ~resp.success)

\* the balance dropped from 10 to 2 between the check and the debit of 8: the
\* rejection was swallowed as reason "other" and the request succeeded unpaid
C13_Witness ==
  /\ Done /\ cfg.optional /\ hist.rejected
  /\ hist.balanceRead = Row(10) /\ Balance(TestUser) = 2
  /\ hist.started > 0
  /\ resp.success /\ resp.skipped /\ resp.reason = "other"
  /\ ~hist.debited

\* C14 (as stated): in degraded mode with the ledger unreachable, running the
\* same valid request twice, the provider succeeding both times, yields two
\* success responses, each tagged as degraded with a reason, and neither run
\* debits or credits the ledger or writes a transaction.
C14_DegradedIdempotence ==
  (Len(prev) = 1 /\ Done /\ Outcome.ledgerDown /\ ~hist.provFailed) =>
    /\ prev[1].success /\ prev[1].skipped /\ prev[1].reason # Null
    /\ resp.success /\ resp.skipped /\ resp.reason # Null
    /\ RowsOfGen(ThisGen) = <<>> /\ RowsOfGen(PriorRun) = <<>>
    /\ Balance(TestUser) = base[TestUser] + SumAmounts(RowsOf(TestUser))

\* anthropic_text, anonymous, Supabase URL unset: both runs succeed and
\* neither response carries the degraded marker
C14_Witness ==
  /\ Len(prev) = 1 /\ Done /\ UrlMissing /\ ~hist.provFailed
  /\ req.modelId = "anthropic_text" /\ req.userId = Null
  /\ prev[1].success /\ resp.success /\ resp.text
  /\ ~prev[1].skipped /\ ~resp.skipped
  /\ Balance(TestUser) = base[TestUser] /\ txs = <<>>

\* C15 (as stated): in degraded mode, for every combination of missing
\* Supabase environment variables (URL, service key, both) or Supabase network
\* failure, a valid request whose provider invocation succeeds gets a success
\* response carrying the provider urls.
C15_DegradedConfigNeverFails ==
  (Done /\ cfg.optional /\ ~cfg.mock /\ cfg.providerKey /\ cfg.anon # "invalid"
        /\ ValidRequest /\ Model.provider # "anthropic"
        /\ (cfg.env # "ok" \/ hist.unavail # {})
        /\ ~hist.provFailed /\ ~hist.rejected) =>
    /\ resp.success
    /\ Len(resp.urls) >= 1
    /\ cfg.env # "ok" => \A k \in DOMAIN resp.urls : resp.urls[k].src = "kie"

\* only SUPABASE_SERVICE_ROLE_KEY is unset: the request ends 500 at step 1,
\* before the provider is invoked
C15_Witness ==
  /\ Done /\ cfg.optional /\ ~cfg.mock /\ cfg.providerKey /\ cfg.anon # "invalid"
  /\ ValidRequest /\ Model.provider # "anthropic"
  /\ cfg.env = "no_key"
  /\ resp.status = 500 /\ resp.error = "Inference failed"
  /\ hist.started = 0
  /\ req.generationId = Null

\* what took effect in the collaborators for the finished request
BalanceChecked == hist.balanceRead # NoRow
Persisted == \A k \in DOMAIN resp.urls : resp.urls[k].src = "storage"
Finalized == gens[ThisGen].status = "success"
FullyTracked == BalanceChecked /\ hist.created /\ hist.debited /\ Persisted /\ Finalized

\* C16 (as stated): a success response of a request in which a ledger, record
\* or asset operation was suppressed or skipped carries the degraded marker
\* and a reason (url and text responses alike); a success response without
\* the marker implies that balance check, record creation, debit, persistence
\* and finalization all took effect.
C16_DegradedReasonPropagated ==
  (Done /\ resp.success /\ ~resp.mock) =>
    /\ ~FullyTracked => (resp.skipped /\ resp.reason # Null)
    /\ hist.unavail # {} => (resp.skipped /\ resp.reason # Null)

\* degraded mode, Supabase configured, nobody signed in, every call answers:
\* a url response without the marker and nothing tracked
C16_Witness ==
  /\ Done /\ resp.success /\ ~resp.mock /\ ~resp.text
  /\ cfg.optional /\ cfg.env = "ok" /\ req.faults = 0
  /\ req.userId = Null
  /\ ~resp.skipped
  /\ ~BalanceChecked /\ ~hist.created /\ ~hist.debited /\ ~Persisted /\ ~Finalized

\* C17 (as stated): persistence is attempted once per successful provider
\* output; in degraded mode, when persistence is unavailable, the request
\* still succeeds with the provider-issued urls, same count and order.
C17_Original ==
  (Done /\ resp.success /\ ~resp.text /\ ~resp.mock /\ req.userId # Null) =>
    /\ hist.uploads = Len(req.allKieUrls)
    /\ "upload" \in hist.unavail => resp.urls = req.allKieUrls

\* C17 (amended): persistence is attempted at most once per successful
\* provider output, in output order, and no further output is attempted after
\* the first attempt that fails; a request whose attempts all succeed answers
\* with one stored object per output, in output order; in degraded mode, when
\* an attempt is unavailable, the request still succeeds and its urls are the
\* provider-issued urls of the successful variants, same count and order as
\* the provider outputs.
C17_PersistenceFallback ==
  /\ hist.uploads <= Len(req.allKieUrls)
  /\ hist.uploads <= req.up + 1
  /\ (Done /\ resp.success /\ ~resp.text /\ ~resp.mock
           /\ req.userId # Null /\ "upload" \notin hist.unavail) =>
       /\ hist.uploads = Len(req.allKieUrls)
       /\ Len(resp.urls) = Len(req.allKieUrls)
       /\ \A k \in DOMAIN resp.urls :
            /\ resp.urls[k] = PublicUrl(k, req.allKieUrls[k].of)
            /\ Resolve(storage, FilePath(req.userId, generationType,
                                         VariantId(ThisGen, k - 1)))
                 = {req.allKieUrls[k].of}
  /\ (Done /\ cfg.optional /\ "upload" \in hist.unavail) =>
       /\ resp.success /\ resp.skipped
       /\ resp.urls = req.allKieUrls
       /\ Len(resp.urls) = Cardinality(hist.okSet)
       /\ OriginsOf(resp.urls) = hist.okSet
       /\ Ascending(resp.urls)
       /\ \A k \in DOMAIN resp.urls : resp.urls[k].src = "kie"

\* three variants succeeded, the second upload was unavailable: the response
\* carries the three provider urls
C17_Witness ==
  /\ Done /\ cfg.optional /\ cfg.env = "ok"
  /\ "upload" \in hist.unavail
  /\ hist.uploads = 2
  /\ Cardinality(storage) = 1
  /\ resp.success
  /\ resp.urls = <<KieUrl(1), KieUrl(2), KieUrl(3)>>

\* ------------------------------------------------------------ asset store

SameObject(a, b) == a.user = b.user /\ a.gen = b.gen /\ a.type = b.type
LatestFor(i) ==
  \A j \in DOMAIN uploadLog : (j > i) => ~SameObject(uploadLog[i], uploadLog[j])

\* C18: persisting twice with the same (identity, generationId, kind) does
\* not error on the later call, every call for that triple returns the same
\* reference, and the reference resolves to the bytes written most recently.
C18_IdempotentPersistence ==
  \A i \in DOMAIN uploadLog :
    /\ ~uploadLog[i].error
    /\ \A j \in DOMAIN uploadLog :
         SameObject(uploadLog[i], uploadLog[j]) <=>
           uploadLog[i].publicUrl = uploadLog[j].publicUrl
    /\ LatestFor(i) => Resolve(storage, uploadLog[i].publicUrl) = {uploadLog[i].bytes}

\* the same triple persisted twice with different bytes, another object in
\* between: the reference serves the second bytes
C18_Witness ==
  /\ Len(uploadLog) = 3
  /\ SameObject(uploadLog[1], uploadLog[3])
  /\ ~SameObject(uploadLog[1], uploadLog[2])
  /\ uploadLog[1].bytes = "b1" /\ uploadLog[3].bytes = "b2"
  /\ ~uploadLog[3].error
  /\ uploadLog[3].publicUrl = uploadLog[1].publicUrl
  /\ Resolve(storage, uploadLog[1].publicUrl) = {"b2"}
  /\ Cardinality(storage) = 2

\* ------------------------------------------------- failure after the debit

\* no record-store call of the request was unavailable
RecordStoreReachable ==
  hist.unavail \cap {"create", "finalize", "markFailed"} = {}

C20_NoAutomaticRefund ==
  /\ \A k \in DOMAIN txs :
       txs[k].gen = ThisGen =>
         /\ txs[k].amount = 0 - cost
         /\ txs[k].amount <= 0
         /\ txs[k].type = "generation"
         /\ txs[k].user = req.userId
  /\ Len(RowsOfGen(ThisGen)) = IF hist.debited THEN 1 ELSE 0
  /\ hist.debited =>
       /\ req.newBalance # NoRow
       /\ Balance(req.userId) = req.newBalance[1]
       /\ (hist.other = 0) => Balance(req.userId) = hist.balanceAtStart - cost

\* a debited request that ended in a provider failure: balance still debited
C20_Witness ==
  /\ Done /\ hist.debited /\ ~resp.success /\ hist.provFailed
  /\ cost > 0
  /\ hist.balanceAtStart = 10
  /\ hist.other = 0
  /\ Balance(req.userId) = 10 - cost
  /\ Len(RowsOfGen(ThisGen)) = 1
  /\ gens[ThisGen].status = "failed"

\* -------------------------------------------------------- provider errors

\* every provider invocation of the request finished, none succeeded, and all
\* of them failed with status s
AllFailedWith(s) ==
  /\ Model.provider # "anthropic"
  /\ req.outputsCount >= 1
  /\ hist.settled = req.outputsCount
  /\ hist.okSet = {}
  /\ hist.failStatuses = {s}

\* C21 (as stated): a request that fails because the provider reported the
\* generation failed answers 502, and one that fails because polling timed
\* out answers 504, for a single request and for a batch in which every
\* variant failed that way (every collaborator available).
C21_ProviderErrorTaxonomy ==
  \A s \in {502, 504} :
    (Done /\ ~resp.success /\ AllAvailable /\ AllFailedWith(s)) => resp.status = s

\* a batch of two whose variants both reported failure is answered 500
C21_Witness ==
  /\ Done /\ req.outputsCount = 2 /\ AllAvailable /\ AllFailedWith(502)
  /\ ~resp.success
  /\ resp.status = 500 /\ resp.error = "Inference failed"
  /\ req.err.msg = "All generations failed"
  /\ gens[ThisGen].status = "failed"

\* ------------------------------------------------------------ identity

\* getUserId returned null (no session on a reachable auth service), or threw
\* the missing-URL error that degraded mode takes for "no identity"
Unresolved ==
  \/ cfg.env = "ok" /\ ~req.session
  \/ cfg.optional /\ UrlMissing

\* nothing was read or written in the ledger, the record store, the asset
\* store or at the provider
NoActivity ==
  /\ hist.balanceRead = NoRow /\ ~hist.debitTried /\ ~hist.debited
  /\ ~hist.created /\ hist.termCalls = 0
  /\ hist.uploads = 0 /\ hist.started = 0
  /\ txs = <<>> /\ gens = InitialGens /\ storage = {}
  /\ Balance(TestUser) = hist.balanceAtStart

MockRequest == cfg.mock /\ req.modelId # "" /\ Model.enabled /\ req.session

\* C23 (as stated): with the mock switch on, a valid request for an enabled
\* model gets a success response with synthetic output and causes no balance
\* read, debit, record creation, asset persistence or provider call, whatever
\* the state of the ledger, record store and asset store.
C23_MockMode ==
  (Done /\ MockRequest) =>
    /\ resp.success /\ resp.mock /\ resp.status = 200
    /\ resp.urls = <<"mock">>
    /\ NoActivity

\* mock switch on, strict mode, Supabase environment unset: answered 500 at
\* step 1, before the mock check
C23_Witness ==
  /\ Done /\ MockRequest /\ Strict /\ cfg.env = "none"
  /\ ~resp.success /\ resp.status = 500
  /\ NoActivity

\* --------------------------------------------------- fully tracked success

\* an identified caller, one output, every collaborator call available, the
\* provider succeeding, nobody else adjusting the identity's balance
TrackedSingle ==
  /\ req.userId # Null
  /\ ValidRequest /\ req.outputsCount = 1
  /\ AllAvailable /\ hist.unavail = {}
  /\ ~hist.provFailed
  /\ hist.other = 0

MarkFailedFailed == hist.orig # <<>> /\ "markFailed" \in hist.unavail

\* C26 (as stated): on every failure path, when the markFailed call itself
\* fails the response still carries the original error's status and message.
C26_FinalizeNeverMasks ==
  (Done /\ MarkFailedFailed /\ ~MissingImage) =>
    /\ resp.status = hist.orig[1].status
    /\ resp.error = hist.orig[1].error

\* the provider key is missing and the markFailed call before the 500
\* "API key not configured" is unavailable: the caller gets the generic
\* "Inference failed" of the markFailed error
C26_Witness ==
  /\ Done /\ MarkFailedFailed /\ ~cfg.providerKey
  /\ hist.orig[1].error = "API key not configured"
  /\ resp.status = 500 /\ resp.error = "Inference failed"
  /\ hist.started = 0

\* ------------------------------------------------------------ batch windows

\* a batch request whose variants are provider invocations
Batch == req.outputsCount > 1 /\ Model.provider # "anthropic" /\ ~MissingImage

Running == {j \in DOMAIN req.batch : req.batch[j] = "running"}

C28_NoDetachedWork ==
  (Done \/ resp # NoResp \/ req.pc \in {"catch", "markfail", "respond"}) =>
    /\ hist.inflight = 0
    /\ Running = {}
    /\ Model.provider # "anthropic" => hist.settled = hist.started

\* a batch of three answered after one variant failed and two succeeded
C28_Witness ==
  /\ Done /\ Batch /\ req.outputsCount = 3
  /\ hist.started = 3 /\ hist.settled = 3 /\ hist.inflight = 0
  /\ Cardinality(hist.okSet) = 2 /\ hist.failStatuses = {502}
  /\ resp.success /\ resp.failedCount = 1

\* ------------------------------------------------------ create, then poll

PollDone == poll.pc = "done"

BusinessStatuses == {401, 402, 404}

\* C30 (as stated): a response with status 401, 402 or 404 comes from the
\* identity, model-lookup or balance-check exit: the request created no
\* generation record, applied no debit and invoked no provider.
C30_BusinessErrorsNoSideEffects ==
  (Done /\ AllAvailable /\ resp.status \in BusinessStatuses) =>
    /\ ~hist.created
    /\ ~hist.debited
    /\ hist.started = 0
    /\ req.generationId = Null
    /\ gens = InitialGens /\ txs = <<>>

\* the provider answered 402 to the create call of a debited request: the
\* response is 402 "Insufficient credits on Kie.ai account"
C30_Witness ==
  /\ Done /\ AllAvailable /\ resp.status = 402
  /\ resp.error = "Insufficient credits on Kie.ai account"
  /\ hist.created /\ hist.debited /\ hist.started = 1
  /\ Balance(TestUser) = hist.balanceAtStart - cost
  /\ gens[ThisGen].status = "failed"

\* ------------------------------------------------------------- first use

\* no adjust_credits call was started
NoAdjustments ==
  /\ \A u \in Users : okCount[u] = 0 /\ failCount[u] = 0
  /\ \A c \in Callers : call[c].pc \in {"idle", "bal_select", "bal_insert"}

\* C31 (as stated): for identities without a ledger row, under any
\* interleaving of concurrent first-use balance reads (no adjustments) every
\* read returns 0 without error, an identity that was read has its one
\* balance row, and materialization writes no transaction row.
C31_FirstUseMaterialization ==
  NoAdjustments =>
    /\ \A k \in DOMAIN reads :
         /\ ~reads[k].error
         /\ reads[k].balance = 0
         /\ credits[reads[k].user] = Row(0)
    /\ txs = <<>>

\* two sessions read the balance of a new identity at once: the first
\* inserted the row and returned 0, the second raised unique_violation
C31_Witness ==
  /\ NoAdjustments
  /\ Len(reads) = 2
  /\ reads[1].user = reads[2].user
  /\ ~reads[1].error /\ reads[1].inserted /\ reads[1].balance = 0
  /\ reads[2].error
  /\ credits[reads[1].user] = Row(0)
  /\ txs = <<>>

(***************************************************************************)
(* wrapSupabaseOperation (lib/supabase/fallback.ts).  The wrapper is a     *)
(* function of the two environment variables and of what the wrapped       *)
(* operation does: it returns a value or throws.  A message is a sequence  *)
(* of words; String.prototype.includes is a case-sensitive substring test. *)
(***************************************************************************)
MaxWords == 2

Words == {"fetch", "network", "ECONNREFUSED", "ENOTFOUND", "timeout",
          "auth", "unauthorized", "JWT", "Network", "duplicate"}

Messages == UNION {[1..n -> Words] : n \in 0..MaxWords}

\* word.includes(pattern) for the words and patterns above
WordIncludes(word, pattern) ==
  \/ word = pattern
  \/ word = "unauthorized" /\ pattern = "auth"

\* message.includes(pattern)
Includes(message, pattern) ==
  \E i \in DOMAIN message : WordIncludes(message[i], pattern)

Reasons == {"missing_env", "network_error", "auth_error", "other"}

NoError == [class |-> Null, reason |-> Null, message |-> <<>>]

\* new SupabaseUnavailableError(message, reason)
SupabaseUnavailableError(message, reason) ==
  [class |-> "SupabaseUnavailableError", reason |-> reason, message |-> message]

\* what a wrapped operation can throw: a classified error, an Error, or a
\* value that is not an Error (String(error) is then its message)
Throwables ==
  {SupabaseUnavailableError(<<>>, r) : r \in Reasons}
    \cup {[class |-> c, reason |-> Null, message |-> m] :
            c \in {"Error", "string"}, m \in Messages}

Returns(v) == [kind |-> "returns", value |-> v, error |-> NoError]
Throws(e) == [kind |-> "throws", value |-> Null, error |-> e]

OperationResults == {"row", "void"}

Operations ==
  {Returns(v) : v \in OperationResults} \cup {Throws(e) : e \in Throwables}

checkSupabaseEnv(url, key) ==
  IF ~url \/ ~key
    THEN Throws(SupabaseUnavailableError(<<"Supabase", "environment", "variables", "not", "configured">>,
                                         "missing_env"))
    ELSE Returns("void")

\* auth patterns tested before the network patterns
wrapSupabaseOperationAuthFirst(url, key, operation) ==
  LET env == checkSupabaseEnv(url, key)
      tried == IF env.kind = "throws" THEN env ELSE operation
      error == tried.error
  IN  IF tried.kind = "returns" THEN tried
      ELSE IF error.class = "SupabaseUnavailableError" THEN Throws(error)
      ELSE IF /\ error.class = "Error"
              /\ \E p \in {"auth", "unauthorized", "JWT"} : Includes(error.message, p)
        THEN Throws(SupabaseUnavailableError(<<"Auth error during">> \o error.message,
                                             "auth_error"))
      ELSE IF /\ error.class = "Error"
              /\ \E p \in {"fetch", "network", "ECONNREFUSED", "ENOTFOUND", "timeout"} :
                   Includes(error.message, p)
        THEN Throws(SupabaseUnavailableError(<<"Network error during">> \o error.message,
                                             "network_error"))
      ELSE Throws(SupabaseUnavailableError(<<"Error during">> \o error.message, "other"))

wrapSupabaseOperation(url, key, operation) ==
  LET env == checkSupabaseEnv(url, key)
      tried == IF env.kind = "throws" THEN env ELSE operation
      error == tried.error
  IN  IF tried.kind = "returns" THEN tried
      ELSE IF error.class = "SupabaseUnavailableError" THEN Throws(error)
      ELSE IF /\ error.class = "Error"
              /\ \E p \in {"fetch", "network", "ECONNREFUSED", "ENOTFOUND", "timeout"} :
                   Includes(error.message, p)
        THEN Throws(SupabaseUnavailableError(<<"Network error during">> \o error.message,
                                             "network_error"))
      ELSE IF /\ error.class = "Error"
              /\ \E p \in {"auth", "unauthorized", "JWT"} : Includes(error.message, p)
        THEN Throws(SupabaseUnavailableError(<<"Auth error during">> \o error.message,
                                             "auth_error"))
      ELSE Throws(SupabaseUnavailableError(<<"Error during">> \o error.message, "other"))

\* everything but app at rest
LedgerAtRest ==
  /\ credits = [u \in Users |-> NoRow]
  /\ base = [u \in Users |-> 0]
  /\ txs = <<>>
  /\ rowLock = [u \in Users |-> NoOne]
  /\ call = [c \in Callers |-> IdleCall]
  /\ ncalls = 0
  /\ okSum = [u \in Users |-> 0]
  /\ okCount = [u \in Users |-> 0]
  /\ failCount = [u \in Users |-> 0]
  /\ lastReport = NoReport
  /\ HandlerIdle

InitGuard ==
  /\ LedgerAtRest
  /\ prev = <<>>
  /\ uploadLog = <<>>
  /\ poll = IdlePoll
  /\ reads = <<>>
  /\ sessions = <<>>
  /\ \E url \in BOOLEAN, key \in BOOLEAN, operation \in Operations :
       app = [fn |-> "wrapSupabaseOperation",
              input |-> <<url, key, operation>>,
              result |-> <<>>]

Guard ==
  /\ app.fn = "wrapSupabaseOperation"
  /\ app.result = <<>>
  /\ app' = [app EXCEPT !.result =
               <<wrapSupabaseOperation(app.input[1], app.input[2], app.input[3])>>]
  /\ UNCHANGED <<credits, txs, ledgerAux, handlerVars, prev, uploadLog, poll, reads, sessions>>

NextGuard == Guard

SpecGuard == InitGuard /\ [][NextGuard]_vars

NetworkPatterns == {"fetch", "network", "ECONNREFUSED", "ENOTFOUND", "timeout"}
AuthPatterns == {"auth", "unauthorized", "JWT"}

\* the reason the claim assigns to an error thrown with the environment configured
ReasonOf(error) ==
  IF error.class = "SupabaseUnavailableError" THEN error.reason
  ELSE IF error.class = "Error" /\ \E p \in NetworkPatterns : Includes(error.message, p)
    THEN "network_error"
  ELSE IF error.class = "Error" /\ \E p \in AuthPatterns : Includes(error.message, p)
    THEN "auth_error"
  ELSE "other"

\* C32: the guard always ends in exactly one of two ways.  With both
\* variables set and an operation that returns, it returns that very value.
\* Otherwise it throws a SupabaseUnavailableError whose reason is one of the
\* four, decided in this order: missing_env when a variable is missing
\* (whatever the operation would do), the reason already carried by a
\* classified error (the error itself leaves unchanged), network_error when
\* an Error's message has a network pattern (also when it has an auth pattern
\* too), auth_error when it has an auth pattern, other for the rest.
C32_GuardClassification ==
  (app.fn = "wrapSupabaseOperation" /\ app.result # <<>>) =>
    LET url == app.input[1]
        key == app.input[2]
        operation == app.input[3]
        out == app.result[1]
    IN  IF url /\ key /\ operation.kind = "returns"
          THEN out = operation
          ELSE /\ out.kind = "throws"
               /\ out.error.class = "SupabaseUnavailableError"
               /\ out.error.reason \in Reasons
               /\ out.error.reason =
                    IF ~(url /\ key) THEN "missing_env" ELSE ReasonOf(operation.error)
               /\ (url /\ key /\ operation.error.class = "SupabaseUnavailableError")
                    => out.error = operation.error

\* an Error whose message has both a network and an auth pattern was wrapped
C32_Witness ==
  /\ app.fn = "wrapSupabaseOperation"
  /\ app.result # <<>>
  /\ app.input[1] /\ app.input[2]
  /\ app.input[3].kind = "throws"
  /\ app.input[3].error.class = "Error"
  /\ Includes(app.input[3].error.message, "timeout")
  /\ Includes(app.input[3].error.message, "JWT")
  /\ app.result[1].error.reason = "network_error"

\* ------------------------------------------------- the record becomes success

\* the record of the running request is in status success
MarkedSuccess == gens[ThisGen].status = "success"

\* the request's model answers with urls (image or video), not with text
UrlRequest == Model.provider # "anthropic"

\* output k of allKieUrls is in the asset store under the request's path
Stored(k) ==
  Resolve(storage, FilePath(req.userId, generationType, VariantId(ThisGen, k - 1)))
    = {req.allKieUrls[k].of}

\* C33 (as stated): the record is marked success only after at least one
\* variant succeeded and a persistence attempt has completed for every
\* provider output; in strict mode only if every persistence succeeded.
C33_Original ==
  (MarkedSuccess /\ UrlRequest) =>
    /\ hist.okSet # {}
    /\ hist.uploads = Len(req.allKieUrls)
    /\ Strict => "upload" \notin hist.unavail

\* C33 (amended): the record of an image or video request is marked success
\* only after at least one variant succeeded, never with zero successful
\* variants; in strict mode only after one persistence attempt per provider
\* output has completed and succeeded (every output is in the asset store and
\* the record holds the stored references); in degraded mode only after the
\* attempts either covered every output or stopped at the first attempt that
\* was unavailable, the record then holding the provider urls.
C33_SuccessAfterPersistence ==
  (MarkedSuccess /\ UrlRequest) =>
    /\ hist.okSet # {}
    /\ Len(req.allKieUrls) = Cardinality(hist.okSet)
    /\ Strict =>
         /\ hist.uploads = Len(req.allKieUrls)
         /\ "upload" \notin hist.unavail
         /\ \A k \in DOMAIN req.allKieUrls :
              Stored(k) /\ gens[ThisGen].urls[k] = PublicUrl(k, req.allKieUrls[k].of)
    /\ cfg.optional =>
         IF "upload" \in hist.unavail
           THEN /\ 1 <= hist.uploads /\ hist.uploads <= Len(req.allKieUrls)
                /\ \A k \in 1..(hist.uploads - 1) : Stored(k)
                /\ gens[ThisGen].urls = req.allKieUrls
           ELSE /\ hist.uploads = Len(req.allKieUrls)
                /\ \A k \in DOMAIN req.allKieUrls : Stored(k)

\* a strict-mode batch of three with one failed variant: the record became
\* success after both outputs were stored
C33_Witness ==
  /\ MarkedSuccess /\ UrlRequest /\ Strict
  /\ req.outputsCount = 3
  /\ Cardinality(hist.okSet) = 2
  /\ hist.uploads = 2
  /\ Len(gens[ThisGen].urls) = 2
  /\ Stored(1) /\ Stored(2)

(***************************************************************************)
(* generatePromptVariants (lib/llm/generatePromptVariants.ts).  The result *)
(* is a function of the two arguments, of ANTHROPIC_API_KEY and of what    *)
(* client.messages.create does.  A prompt is a text with a variant number  *)
(* (0: no suffix); the reply is given by what JSON.parse makes of it and   *)
(* by its lines.                                                           *)
(***************************************************************************)
MaxVariants == 3
MaxItems == 4
MaxLines == 3

BasePrompts == {"", " ", "a cat"}
Counts == -1..MaxVariants

\* s.trim() for the strings used here
Trim(s) == IF s = " " THEN "" ELSE s

Plain(text) == [text |-> text, variant |-> 0]
\* the base prompt with the suffix " (variant k)"
Suffixed(basePrompt, k) == [text |-> basePrompt, variant |-> k]

\* entries of a parsed JSON array
Items == {[type |-> "string", text |-> "v1"], [type |-> "string", text |-> "v2"],
          [type |-> "string", text |-> ""], [type |-> "string", text |-> " "],
          [type |-> "number", text |-> "7"]}

\* lines of a reply that is not a JSON array ("fence" is a line of three
\* backquotes)
Lines == {"[", "]", "{", "fence", ",", "", "'v1',", "v2", "'"}

\* line.startsWith(prefix) for the lines above
StartsWithSyntax(line) == line \in {"[", "]", "{", "fence"}

\* the line without its leading quote and its trailing quote and comma, trimmed
Unquote(line) ==
  IF line = "'v1'," THEN "v1" ELSE IF line = "'" THEN "" ELSE line

\* what client.messages.create can do: throw, or answer with a text that
\* JSON.parse turns into an array, into another value, or rejects
Replies ==
  {[kind |-> "throws", parse |-> Null, items |-> <<>>, lines |-> <<>>]}
    \cup {[kind |-> "text", parse |-> "array", items |-> it, lines |-> <<"[">>] :
            it \in UNION {[1..k -> Items] : k \in 0..MaxItems}}
    \cup {[kind |-> "text", parse |-> "other", items |-> <<>>, lines |-> <<l>>] :
            l \in {"{", "v2"}}
    \cup {[kind |-> "text", parse |-> "fails", items |-> <<>>, lines |-> ls] :
            ls \in UNION {[1..k -> Lines] : k \in 0..MaxLines}}

\* textContent is the empty string
NoText(reply) == reply.kind = "text" /\ reply.lines \in {<<>>, <<"">>}

\* parsed.filter(...) of a JSON array, otherwise the line-by-line extraction
ParsedVariants(reply) ==
  LET kept == SelectSeq(reply.items, LAMBDA v : v.type = "string" /\ Trim(v.text) # "")
      lines == SelectSeq(reply.lines,
                         LAMBDA l : l # "" /\ ~StartsWithSyntax(l) /\ l # ","
                                    /\ Unquote(l) # "")
  IN  IF reply.parse = "array"
        THEN [k \in DOMAIN kept |-> Plain(kept[k].text)]
        ELSE [k \in DOMAIN lines |-> Plain(Unquote(lines[k]))]

VariantsReturn(variants, called) ==
  [kind |-> "returns", value |-> variants, error |-> Null, called |-> called]
VariantsThrow(message) ==
  [kind |-> "throws", value |-> <<>>, error |-> message, called |-> FALSE]

\* Array.from({ length: n }, ...) of the outer catch
FallbackVariants(basePrompt, n) ==
  [k \in 1..n |-> IF k = 1 THEN Plain(basePrompt) ELSE Suffixed(basePrompt, k)]

\* the padding loop and the slice
ExactlyN(variants, basePrompt, n) ==
  [k \in 1..n |-> IF k <= Len(variants) THEN variants[k] ELSE Suffixed(basePrompt, k)]

\* the variants are returned as parsed, neither padded nor trimmed
generatePromptVariantsAsParsed(basePrompt, n, apiKey, reply) ==
  IF Trim(basePrompt) = "" THEN VariantsThrow("Base prompt cannot be empty")
  ELSE IF n <= 0 THEN VariantsThrow("Count must be positive")
  ELSE IF n = 1 THEN VariantsReturn(<<Plain(basePrompt)>>, FALSE)
  ELSE IF ~apiKey THEN VariantsThrow("ANTHROPIC_API_KEY not configured")
  ELSE IF reply.kind = "throws" \/ NoText(reply)
    THEN VariantsReturn(FallbackVariants(basePrompt, n), TRUE)
  ELSE VariantsReturn(ParsedVariants(reply), TRUE)

generatePromptVariants(basePrompt, n, apiKey, reply) ==
  IF Trim(basePrompt) = "" THEN VariantsThrow("Base prompt cannot be empty")
  ELSE IF n <= 0 THEN VariantsThrow("Count must be positive")
  ELSE IF n = 1 THEN VariantsReturn(<<Plain(basePrompt)>>, FALSE)
  ELSE IF ~apiKey THEN VariantsThrow("ANTHROPIC_API_KEY not configured")
  ELSE IF reply.kind = "throws" \/ NoText(reply)
    THEN VariantsReturn(FallbackVariants(basePrompt, n), TRUE)
  ELSE VariantsReturn(ExactlyN(ParsedVariants(reply), basePrompt, n), TRUE)

InitVariants ==
  /\ LedgerAtRest
  /\ prev = <<>>
  /\ uploadLog = <<>>
  /\ poll = IdlePoll
  /\ reads = <<>>
  /\ sessions = <<>>
  /\ \E basePrompt \in BasePrompts, n \in Counts, apiKey \in BOOLEAN, reply \in Replies :
       app = [fn |-> "generatePromptVariants",
              input |-> <<basePrompt, n, apiKey, reply>>,
              result |-> <<>>]

Variants ==
  /\ app.fn = "generatePromptVariants"
  /\ app.result = <<>>
  /\ app' = [app EXCEPT !.result =
               <<generatePromptVariants(app.input[1], app.input[2], app.input[3],
                                        app.input[4])>>]
  /\ UNCHANGED <<credits, txs, ledgerAux, handlerVars, prev, uploadLog, poll, reads, sessions>>

NextVariants == Variants

SpecVariants == InitVariants /\ [][NextVariants]_vars

\* generatePromptVariants was applied: its arguments and its result
VariantsApplied == app.fn = "generatePromptVariants" /\ app.result # <<>>
NonEmptyPrompts(variants) == \A k \in DOMAIN variants : Trim(variants[k].text) # ""

\* C34 (as stated): with a non-empty base prompt, n >= 2 and a key, exactly
\* n non-empty prompts are returned whatever the LLM returns, and an LLM or
\* parse failure gives the base prompt plus suffixed copies; n = 1 gives
\* [basePrompt] without a call; an empty base prompt or n <= 0 fails without
\* a call.
C34_Original ==
  VariantsApplied =>
    LET basePrompt == app.input[1]
        n == app.input[2]
        apiKey == app.input[3]
        reply == app.input[4]
        out == app.result[1]
    IN  /\ (Trim(basePrompt) # "" /\ n >= 2 /\ apiKey) =>
             /\ out.kind = "returns" /\ Len(out.value) = n /\ NonEmptyPrompts(out.value)
             /\ (reply.kind = "throws" \/ reply.parse \in {"other", "fails"}) =>
                  out.value = FallbackVariants(basePrompt, n)
        /\ (Trim(basePrompt) # "" /\ n = 1) =>
             out.kind = "returns" /\ out.value = <<Plain(basePrompt)>> /\ ~out.called
        /\ (Trim(basePrompt) = "" \/ n <= 0) => out.kind = "throws" /\ ~out.called

\* C34 (amended): with a non-empty base prompt, n >= 2 and a key, exactly n
\* non-empty prompts are returned whatever the LLM returns: a failed call or
\* a reply without text gives the base prompt followed by its copies
\* suffixed 2..n; otherwise the usable entries of the reply are taken (the
\* non-blank strings of a JSON array, or the reply's lines when it is not a
\* JSON array), the first n of them when there are more, followed by copies
\* of the base prompt suffixed with their position when there are fewer.
\* n = 1 gives [basePrompt] without a call; an empty base prompt or n <= 0
\* fails without a call.
C34_ExactlyNVariants ==
  VariantsApplied =>
    LET basePrompt == app.input[1]
        n == app.input[2]
        apiKey == app.input[3]
        reply == app.input[4]
        out == app.result[1]
        usable == ParsedVariants(reply)
    IN  /\ (Trim(basePrompt) # "" /\ n >= 2 /\ apiKey) =>
             /\ out.kind = "returns" /\ out.called
             /\ Len(out.value) = n /\ NonEmptyPrompts(out.value)
             /\ IF reply.kind = "throws" \/ NoText(reply)
                  THEN /\ out.value[1] = Plain(basePrompt)
                       /\ \A k \in 2..n : out.value[k] = Suffixed(basePrompt, k)
                  ELSE \A k \in 1..n :
                         out.value[k] = IF k <= Len(usable) THEN usable[k]
                                        ELSE Suffixed(basePrompt, k)
        /\ (Trim(basePrompt) # "" /\ n = 1) =>
             out.kind = "returns" /\ out.value = <<Plain(basePrompt)>> /\ ~out.called
        /\ (Trim(basePrompt) = "" \/ n <= 0) => out.kind = "throws" /\ ~out.called

\* three variants asked, the reply is not JSON and has one usable line: that
\* line, then two suffixed copies of the base prompt
C34_Witness ==
  /\ VariantsApplied
  /\ app.input[1] = "a cat" /\ app.input[2] = 3 /\ app.input[3]
  /\ app.input[4].parse = "fails"
  /\ app.input[4].lines = <<"fence", "v2", "]">>
  /\ app.result[1].value = <<Plain("v2"), Suffixed("a cat", 2), Suffixed("a cat", 3)>>

(***************************************************************************)
(* Concurrent executions of POST /api/infer by one signed-in identity, in  *)
(* strict mode with every collaborator answering.  Each session runs steps *)
(* 5 to 12 of the handler on the shared credits and credit_transactions    *)
(* tables; get_user_balance and adjust_credits act as single transactions  *)
(* (the row lock of adjust_credits serializes them).                       *)
(***************************************************************************)
NumSessions == 3

Sessions == 1..NumSessions
SessionBalances == {0, 5, 10, 16, 20}
\* creditCost of the text and of the image models
SessionCosts == {2, 8}
\* generationId = crypto.randomUUID(), one per session
SessionGen(s) == <<ThisGen, s>>

NewSession(c) ==
  [pc |-> "balance", cost |-> c, currentBalance |-> NoRow, newBalance |-> NoRow,
   record |-> "none", invoked |-> FALSE, status |-> 0, success |-> FALSE]

SessionReturn(s, status, success) ==
  sessions' = [sessions EXCEPT ![s].pc = "done", ![s].status = status,
                               ![s].success = success]

\* 5. TRY CHECK CREDITS
SessionCheckCredits(s) ==
  LET r == get_user_balance(TestUser) IN
  /\ sessions[s].pc = "balance"
  /\ credits' = r.credits
  /\ IF r.balance < sessions[s].cost
       THEN SessionReturn(s, 402, FALSE)
       ELSE sessions' = [sessions EXCEPT ![s].pc = "create",
                                         ![s].currentBalance = Row(r.balance)]
  /\ UNCHANGED <<txs, ledgerAux, handlerVars, prev, uploadLog, poll, reads, app>>

\* 6. TRY CREATE GENERATION RECORD
SessionCreateRecord(s) ==
  /\ sessions[s].pc = "create"
  /\ sessions' = [sessions EXCEPT ![s].pc = "debit", ![s].record = "processing"]
  /\ UNCHANGED <<credits, txs, ledgerAux, handlerVars, prev, uploadLog, poll, reads, app>>

\* A debit that subtracts the cost without the balance test of adjust_credits.
SessionDeductCreditsUnchecked(s) ==
  /\ sessions[s].pc = "debit"
  /\ credits' = [credits EXCEPT ![TestUser] = Row(Balance(TestUser) - sessions[s].cost)]
  /\ txs' = Append(txs, [user |-> TestUser, amount |-> 0 - sessions[s].cost,
                         type |-> "generation", gen |-> SessionGen(s)])
  /\ sessions' = [sessions EXCEPT ![s].pc = "provider",
                                  ![s].newBalance = Row(Balance(TestUser) - sessions[s].cost)]
  /\ UNCHANGED <<ledgerAux, handlerVars, prev, uploadLog, poll, reads, app>>

\* 7. TRY DEDUCT CREDITS: a rejected debit is rethrown to the top-level catch
SessionDeductCredits(s) ==
  LET r == adjust_credits(TestUser, 0 - sessions[s].cost, "generation", SessionGen(s)) IN
  /\ sessions[s].pc = "debit"
  /\ credits' = r.credits
  /\ txs' = r.txs
  /\ IF r.success
       THEN sessions' = [sessions EXCEPT ![s].pc = "provider",
                                         ![s].newBalance = r.new_balance]
       ELSE sessions' = [sessions EXCEPT ![s].pc = "catch"]
  /\ UNCHANGED <<ledgerAux, handlerVars, prev, uploadLog, poll, reads, app>>

\* 8./9. the provider is invoked and answers
SessionInfer(s, st) ==
  /\ sessions[s].pc = "provider"
  /\ sessions' = [sessions EXCEPT ![s].invoked = TRUE,
                                  ![s].pc = IF st = 200 THEN "finalize" ELSE "catch"]
  /\ UNCHANGED <<credits, txs, ledgerAux, handlerVars, prev, uploadLog, poll, reads, app>>

\* 10.-12. upload, updateGenerationSuccess, the success response
SessionRespond(s) ==
  /\ sessions[s].pc = "finalize"
  /\ sessions' = [sessions EXCEPT ![s].pc = "done", ![s].record = "success",
                                  ![s].status = 200, ![s].success = TRUE]
  /\ UNCHANGED <<credits, txs, ledgerAux, handlerVars, prev, uploadLog, poll, reads, app>>

\* the top-level catch: updateGenerationFailed and the error response
SessionCatch(s) ==
  /\ sessions[s].pc = "catch"
  /\ sessions' = [sessions EXCEPT ![s].pc = "done", ![s].record = "failed",
                                  ![s].status = 500, ![s].success = FALSE]
  /\ UNCHANGED <<credits, txs, ledgerAux, handlerVars, prev, uploadLog, poll, reads, app>>

InitSessions ==
  /\ \E b \in SessionBalances :
       /\ credits = [u \in Users |-> Row(b)]
       /\ base = [u \in Users |-> b]
  /\ txs = <<>>
  /\ rowLock = [u \in Users |-> NoOne]
  /\ call = [c \in Callers |-> IdleCall]
  /\ ncalls = 0
  /\ okSum = [u \in Users |-> 0]
  /\ okCount = [u \in Users |-> 0]
  /\ failCount = [u \in Users |-> 0]
  /\ lastReport = NoReport
  /\ HandlerIdle
  /\ prev = <<>>
  /\ uploadLog = <<>>
  /\ poll = IdlePoll
  /\ reads = <<>>
  /\ app = NoApp
  /\ \E c \in SessionCosts : sessions = [s \in Sessions |-> NewSession(c)]

NextSessions ==
  \/ \E s \in Sessions : SessionCheckCredits(s)
  \/ \E s \in Sessions : SessionCreateRecord(s)
  \/ \E s \in Sessions : SessionDeductCredits(s)
  \/ \E s \in Sessions, st \in VariantStatuses : SessionInfer(s, st)
  \/ \E s \in Sessions : SessionRespond(s)
  \/ \E s \in Sessions : SessionCatch(s)

SpecSessions == InitSessions /\ [][NextSessions]_vars

\* sessions whose request reached the provider
Invoked == {s \in DOMAIN sessions : sessions[s].invoked}
\* sessions whose debit is in the transaction log
Debited == {s \in DOMAIN sessions : \E i \in DOMAIN txs : txs[i].gen = SessionGen(s)}

\* C35: in strict mode, whatever the interleaving of the concurrent requests
\* of one identity with initial balance b and model cost c > 0, at most
\* floor(b / c) of them reach the provider (each of those after its own
\* debit); every other request that ended got an error response without a
\* provider call; the balance is b minus c per debit and never below 0.
C35_NoDoubleSpend ==
  LET b == base[TestUser] IN
  \A s \in DOMAIN sessions :
    LET c == sessions[s].cost IN
    /\ c > 0
    /\ Cardinality(Invoked) <= b \div c
    /\ Invoked \subseteq Debited
    /\ Balance(TestUser) = b - c * Cardinality(Debited)
    /\ Balance(TestUser) >= 0
    /\ (sessions[s].pc = "done" /\ s \notin Invoked) =>
         /\ ~sessions[s].success
         /\ sessions[s].status \in {402, 500}
         /\ sessions[s].record # "success"

\* balance 16, cost 8, three requests all read 16 and passed the check: two
\* were debited and reached the provider, the third was rejected by the
\* debit and ended with 500 without a provider call
C35_Witness ==
  /\ base[TestUser] = 16
  /\ Cardinality(DOMAIN sessions) >= 3
  /\ \A s \in DOMAIN sessions :
       /\ sessions[s].cost = 8
       /\ sessions[s].pc = "done"
       /\ sessions[s].currentBalance = Row(16)
  /\ Cardinality(Invoked) = 2
  /\ \E s \in DOMAIN sessions :
       s \notin Invoked /\ sessions[s].status = 500
  /\ Balance(TestUser) = 0

\* --------------------------------------------------- one debit per request

\* C36: an execution of the handler calls the ledger's adjustment at most
\* once; every transaction the request wrote is that one call's: at most one
\* row carries the request's generationId, its amount is minus the model's
\* credit cost (not multiplied by outputsCount), its type is generation and
\* its user the caller; every other row was written by another session.
C36_OneDebitPerRequest ==
  /\ hist.adjustCalls <= 1
  /\ Len(RowsOfGen(ThisGen)) <= hist.adjustCalls
  /\ Len(txs) <= Len(RowsOfGen(ThisGen)) + hist.other
  /\ \A k \in DOMAIN txs :
       txs[k].gen = ThisGen =>
         /\ txs[k].amount = 0 - Model.creditCost
         /\ txs[k].type = "generation"
         /\ txs[k].user = req.userId
         /\ req.generationId = ThisGen
  /\ (Done /\ hist.adjustCalls = 1 /\ hist.other = 0 /\ ~hist.rejected
           /\ "debit" \notin hist.unavail) =>
       Balance(req.userId) = hist.balanceAtStart - Model.creditCost

\* a batch of four with two failed variants: one debit of the cost of one
C36_Witness ==
  /\ Done /\ req.outputsCount = 4
  /\ Cardinality(hist.okSet) = 2 /\ hist.settled = 4
  /\ hist.adjustCalls = 1
  /\ Len(txs) = 1
  /\ txs[1].gen = ThisGen /\ txs[1].amount = 0 - Model.creditCost
  /\ Model.creditCost = 8
  /\ Balance(req.userId) = hist.balanceAtStart - 8

\* ------------------------------------------------------ anonymous requests

\* the request went on from step 1 without an identity
Anonymous == cfg.optional /\ req.userId = Null /\ req.generationId # Null

\* updateGenerationSuccess / updateGenerationFailed calls that passed
\* checkSupabaseEnv and were sent to the record store
RecordStoreCalls == IF cfg.env = "ok" THEN hist.termCalls ELSE 0

\* C37 (as stated): a request that proceeds with no identity issues no call
\* to the ledger, the record store or the asset store at any step,
\* finalization included.
C37_AnonymousTouchesNothing ==
  Anonymous =>
    /\ hist.balanceRead = NoRow /\ ~hist.debitTried /\ RowsOfGen(ThisGen) = <<>>
    /\ ~hist.created /\ RecordStoreCalls = 0
    /\ hist.uploads = 0 /\ storage = {}

\* an anonymous request whose provider succeeded: the finalization call went
\* to the record store, was unavailable there, and the success response
\* reports Supabase as skipped for a network error
C37_Witness ==
  /\ Done /\ Anonymous /\ cfg.env = "ok"
  /\ hist.balanceRead = NoRow /\ ~hist.debitTried /\ hist.uploads = 0
  /\ RecordStoreCalls = 1
  /\ "finalize" \in hist.unavail
  /\ resp.success /\ resp.generationId = ThisGen
  /\ resp.urls = req.allKieUrls /\ Len(resp.urls) >= 1
  /\ resp.skipped /\ resp.reason = "network_error"

\* ------------------------------------------------ strict-mode tracking

\* C38: in strict mode, whenever the request's generation record is in
\* status success, exactly one transaction is linked to its id, a debit whose
\* amount is minus the record's creditsUsed, written for the record's user;
\* and the step that turns the record into success is taken with that debit
\* already applied.
C38_StrictTracking ==
  /\ [](Strict /\ MarkedSuccess =>
          /\ Len(RowsOfGen(ThisGen)) = 1
          /\ \A k \in DebitsOf(ThisGen) :
               /\ txs[k].amount = 0 - gens[ThisGen].credits_used
               /\ txs[k].user = gens[ThisGen].user
               /\ txs[k].type = "generation"
          /\ Cardinality(DebitsOf(ThisGen)) = 1
          /\ hist.debited)
  /\ [][(Strict /\ ~MarkedSuccess /\ MarkedSuccess') =>
          /\ hist.debited
          /\ Cardinality(DebitsOf(ThisGen)) = 1
          /\ txs' = txs]_vars

\* a strict-mode batch of two: the record is success with cost 8 and the one
\* transaction of the request is the debit of 8
C38_Witness ==
  /\ Strict /\ MarkedSuccess /\ Done
  /\ req.outputsCount = 2
  /\ gens[ThisGen].credits_used = 8
  /\ RowsOfGen(ThisGen) = <<[user |-> req.userId, amount |-> 0 - 8,
                             type |-> "generation", gen |-> ThisGen]>>
  /\ Balance(req.userId) = hist.balanceAtStart - 8

\* ------------------------------------------------- outputsCount below one

\* C39 (as stated): a request with outputsCount < 1 is rejected before any
\* side effect: no generation record is created and no debit is applied; no
\* request is debited while it starts zero provider invocations because of
\* its own outputsCount.
C39_ZeroOutputsRejected ==
  (req.outputsCount < 1 /\ UrlRequest /\ Model.enabled /\ ~MissingImage /\ AllAvailable) =>
    /\ ~hist.created /\ gens[ThisGen].status = "none"
    /\ ~hist.debited /\ RowsOfGen(ThisGen) = <<>>

\* outputsCount 0 for an image model, every collaborator answering: the
\* record was created and the cost debited, the batch loop started no
\* provider invocation, and the request ended with 500, the record failed and
\* the balance lower by the cost
C39_Witness ==
  /\ Done /\ req.outputsCount = 0
  /\ UrlRequest /\ Model.enabled /\ ~MissingImage /\ AllAvailable
  /\ hist.created /\ hist.debited
  /\ hist.started = 0
  /\ Len(RowsOfGen(ThisGen)) = 1
  /\ hist.other = 0
  /\ Balance(req.userId) = hist.balanceAtStart - cost
  /\ resp.status = 500 /\ ~resp.success
  /\ gens[ThisGen].status = "failed"

====
